---- MODULE Spec2Model ----
(***************************************************************************)
(* Model of the Webboard synthesizer engine (services/audioService.ts):    *)
(* the note->voice map, the voices' automation, the sustain and pitch-bend  *)
(* bookkeeping, the deferred teardown timers and the arpeggiator.           *)
(*                                                                         *)
(* Time is counted in units of 10 ms.  A timer or a ramp is stored with the *)
(* time it still has to run ("left"); the Advance action lets time pass and *)
(* never passes the deadline of a pending timer.                            *)
(*                                                                         *)
(* A frequency f is stored as the number of semitones between f and A4      *)
(* (f = 440 * 2^(n/12)), so multiplying by 2^(k/12) is adding k.            *)
(***************************************************************************)
EXTENDS Integers, Sequences, FiniteSets, TLC

\* ------------------------------------------------------------------ bounds
\* voices that exist at the same time (in the map, awaiting teardown, orphaned)
MaxVoices == 2
\* pending timer callbacks
MaxTimers == 2
\* pending timer callbacks where the continuous controls are explored
MaxToneTimers == 1
\* length of a note list handed to startArp
MaxArpNotes == 2
\* ticks counted in one run of the arpeggiator
MaxTicks == 3
\* pending timer callbacks in a run of the arpeggiator (tick, noteOff, teardown)
MaxArpTimers == 3
MaxRoutes == 2
MaxLoops == 2
\* voices alive at once where chords are played: the three notes of one chord
MaxChordVoices == 3

\* ------------------------------------------------------- program constants
\* getBentFrequency: bendRange, in semitones
bendRange == 2
\* stopNote: the release time of an immediate stop, 0.01 s
ImmediateRelease == 1
\* stopNote: the teardown timer runs (releaseTime + 0.2) s
TeardownGrace == 20
\* generateFrequencies: octaves 0..8
MaxOctave == 8
\* generateFrequencies: A4 is note 9 of octave 4
A4Octave == 4
A4Index == 9
\* startArp: one minute, in time units (60 s)
Minute == 6000
\* startArp: the gate is 0.8 of the period (8 tenths)
GateTenths == 8
\* playNote: the default velocity 0.4 and the default initialSlide 0.5, in tenths
DefaultVelocity == 4
DefaultSlide == 5
\* startArp: the tick plays with velocity 0.3, in tenths
ArpVelocity == 3
\* INITIAL_SETTINGS.attack, 0.1 s, in time units
AttackTime == 10
\* stopNote: the release ramps end at 0.001, in thousandths
RampFloor == 1

\* ------------------------------------------------------------- input sets
Null == 0
\* the value of an array element beyond the array's end
Undefined == <<"undefined">>
\* a property name every object inherits from Object.prototype
Constructor == <<"constructor">>
\* note names, as strings of characters: "C4", "E8", "E#4" (matches the
\* pattern, no such note), "H4" (no match), and "constructor"
NoteNames ==
  { <<"C", "4">>, <<"E", "8">>, <<"E", "#", "4">>, <<"H", "4">>, Constructor }
Octaves == {0, 1}
Glides == {0, 10}
Releases == {10, 20}
Bends == {-1, 0, 1}
Cutoffs == {2000, 500}
\* slide values, in tenths
Slides == {0, 10}
ArpRates == {600}
\* time steps of the environment between two events
Steps == {10}

\* -------------------------------------------------------------- constants.ts
NOTES == <<"C", "C#", "D", "D#", "E", "F", "F#", "G", "G#", "A", "A#", "B">>

PitchChars == {"A", "B", "C", "D", "E", "F", "G", "#"}
DigitVal == ("0" :> 0) @@ ("1" :> 1) @@ ("2" :> 2) @@ ("3" :> 3) @@ ("4" :> 4)
            @@ ("5" :> 5) @@ ("6" :> 6) @@ ("7" :> 7) @@ ("8" :> 8) @@ ("9" :> 9)
Digits == DOMAIN DigitVal

\* the name of a pitch class as one string, for the table lookup
PitchName(chars) ==
  IF chars = <<"C">> THEN "C" ELSE IF chars = <<"C", "#">> THEN "C#"
  ELSE IF chars = <<"D">> THEN "D" ELSE IF chars = <<"D", "#">> THEN "D#"
  ELSE IF chars = <<"E">> THEN "E" ELSE IF chars = <<"F">> THEN "F"
  ELSE IF chars = <<"F", "#">> THEN "F#" ELSE IF chars = <<"G">> THEN "G"
  ELSE IF chars = <<"G", "#">> THEN "G#" ELSE IF chars = <<"A">> THEN "A"
  ELSE IF chars = <<"A", "#">> THEN "A#" ELSE IF chars = <<"B">> THEN "B"
  ELSE "?"

NoteIndex(name) == CHOOSE i \in 1..Len(NOTES) : NOTES[i] = name

\* FREQUENCIES[key]: the table holds `${note}${octave}` for the 12 notes and
\* octaves 0..8, as a4 * 2^(semiFromA4 / 12); Null when the key is absent.
\* A key is <<pitch characters, octave number>>.
HasFrequency(key) ==
  /\ \E i \in 1..Len(NOTES) : NOTES[i] = PitchName(key[1])
  /\ key[2] \in 0..MaxOctave

FREQUENCIES(key) ==
  (key[2] - A4Octave) * 12 + ((NoteIndex(PitchName(key[1])) - 1) - A4Index)

\* note.match(/([A-G#]+)(\d+)/): the leftmost run of pitch characters that is
\* followed by a digit, and the digits after it; <<>> when there is none.
RECURSIVE RunEnd(_, _, _)
RunEnd(s, i, set) == IF i <= Len(s) /\ s[i] \in set THEN RunEnd(s, i + 1, set) ELSE i

RECURSIVE ParseInt(_, _)
ParseInt(ds, acc) ==
  IF ds = <<>> THEN acc ELSE ParseInt(Tail(ds), acc * 10 + DigitVal[Head(ds)])

NoteMatch(note) ==
  LET starts == { i \in 1..Len(note) :
                    /\ note[i] \in PitchChars
                    /\ (i = 1 \/ note[i - 1] \notin PitchChars)
                    /\ LET j == RunEnd(note, i, PitchChars)
                       IN  j <= Len(note) /\ note[j] \in Digits }
  IN  IF starts = {} THEN <<>>
      ELSE LET i == CHOOSE x \in starts : \A y \in starts : x <= y
               j == RunEnd(note, i, PitchChars)
               k == RunEnd(note, j, Digits)
           IN  << SubSeq(note, i, j - 1), ParseInt(SubSeq(note, j, k - 1), 0) >>

\* playNote, lines 113-118: the key looked up in the table.  A note the pattern
\* does not match is looked up as it is, and no such key is in the table.
ShiftedNote(note, settings) ==
  LET noteParts == NoteMatch(note)
  IN  IF noteParts # <<>>
        THEN << noteParts[1], noteParts[2] + settings.octave >>
        ELSE << note, -1 >>

\* generateFrequencies, line 248: the table is an object literal, so a lookup
\* of a name that Object.prototype defines finds the inherited property (a
\* function, which is truthy and is NaN as a number)
ObjectPrototype == { Constructor }
Inherited(key) == key[1] \in ObjectPrototype

\* playNote, lines 120-121: `if (!baseFreq) return` lets the call go on with
\* a frequency of the table
Playable(note, settings) == HasFrequency(ShiftedNote(note, settings))

BaseFreq(note, settings) == FREQUENCIES(ShiftedNote(note, settings))

\* ------------------------------------------------------------------- state
VARIABLES
  ctx,                \* the audio context exists (init went through)
  hasWindow,          \* `window` is defined
  activeOscillators,  \* the note->voice map, in insertion order: <<note, voice>>
  voices,             \* the ActiveOscillator objects, by identity
  timers,             \* the pending setTimeout callbacks
  arpTimer,           \* TRUE when the arpTimer field holds a handle
  activeNotesForArp,
  currentArpIndex,
  arpSettings,        \* the settings the running tick closure captured
  currentPitchBend,
  lastFrequency,
  currentSustain,
  arpTicks,           \* history: the ticks that fired a noteOn since the start from Idle
  last,               \* the operation that ran last, and whether it threw
  appSettings,        \* App's `settings` state, the fields the gesture bridge touches
  gestureData,        \* App's `gestureData` state: null or the last reading
  gestureControl,     \* GestureControl: its camera, its timeouts and its requests
  keyboard            \* Keyboard: its activeNotes, the chordMode prop, the keys held down

vars == << ctx, hasWindow, activeOscillators, voices, timers, arpTimer,
           activeNotesForArp, currentArpIndex, arpSettings, currentPitchBend,
           lastFrequency, currentSustain, arpTicks, last, appSettings, gestureData,
           gestureControl, keyboard >>

engine == << activeOscillators, voices, timers, arpTimer, activeNotesForArp,
             currentArpIndex, arpSettings, currentPitchBend, lastFrequency,
             currentSustain >>

\* the identities a voice can have; a specification's maxVoices bounds how many
\* are alive at once
VoiceIds == 1..MaxChordVoices

\* an ActiveOscillator.  The timeline of the two oscillators' frequency is kept
\* as oscFreq (where it ends) and oscFreqEnd (time until its last event); the
\* timeline of the gain and of the envelope source as gain (the last curve
\* scheduled) and gainEnd (time until that curve ends).
\* peak is the level the attack ramp of the gain leads to (the velocity).
Voice(baseFreq, oscFreq, oscFreqEnd, filter, slide, velocity) ==
  [live |-> TRUE, baseFreq |-> baseFreq, released |-> FALSE, connected |-> TRUE,
   oscFreq |-> oscFreq, oscFreqEnd |-> oscFreqEnd, gain |-> "attack", gainEnd |-> 0,
   filter |-> filter, slideSource |-> slide, peak |-> velocity]

NoVoice ==
  [live |-> FALSE, baseFreq |-> 0, released |-> FALSE, connected |-> FALSE,
   oscFreq |-> 0, oscFreqEnd |-> 0, gain |-> "none", gainEnd |-> 0,
   filter |-> 0, slideSource |-> 0, peak |-> 0]

\* SynthSettings, the fields the engine reads
SynthSettings ==
  [octave : Octaves, monoMode : BOOLEAN, glide : Glides, release : Releases,
   sustain : BOOLEAN, pitchBend : Bends, cutoff : Cutoffs, arpRate : ArpRates]

\* INITIAL_SETTINGS, within the input sets
INITIAL_SETTINGS ==
  [octave |-> 0, monoMode |-> FALSE, glide |-> 10, release |-> 10,
   sustain |-> FALSE, pitchBend |-> 0, cutoff |-> 2000, arpRate |-> 600]

\* --------------------------------------------------- Map<string, ActiveOscillator>
MapKeys(m) == { m[i][1] : i \in 1..Len(m) }
MapValues(m) == { m[i][2] : i \in 1..Len(m) }
MapHas(m, note) == note \in MapKeys(m)
MapGet(m, note) ==
  IF MapHas(m, note) THEN (CHOOSE e \in { m[i] : i \in 1..Len(m) } : e[1] = note)[2]
  ELSE Null
MapDelete(m, note) == SelectSeq(m, LAMBDA e : e[1] # note)
\* set keeps the place of a key that is present and appends a new key
MapSet(m, note, v) ==
  IF MapHas(m, note)
    THEN [ i \in 1..Len(m) |-> IF m[i][1] = note THEN << note, v >> ELSE m[i] ]
    ELSE Append(m, << note, v >>)

\* ------------------------------------------------------------------ timers
\* two callbacks registered at the same instant with the same closure values and
\* the same delay are one element of the set: the second does what the first did
Timer(kind, note, entry, settings, left) ==
  [kind |-> kind, note |-> note, entry |-> entry, settings |-> settings, left |-> left]

\* an object nothing refers to and whose graph is torn down is gone
Referenced(v, m, ts) == v \in MapValues(m) \/ \E t \in ts : t.entry = v

Collect(vs, m, ts) ==
  [ v \in VoiceIds |->
      IF vs[v].live /\ ~vs[v].connected /\ ~Referenced(v, m, ts) THEN NoVoice ELSE vs[v] ]

\* -------------------------------------------------------------- getBentFrequency
getBentFrequencyUnbent(baseFreq, bend) == baseFreq

\* baseFreq * 2^((bend * bendRange) / 12)
getBentFrequency(baseFreq, bend) == baseFreq + bend * bendRange

\* ------------------------------------------------------------ AudioParam events
\* A parameter's timeline is kept as the value its last event (in time order)
\* leads to and the time until that event.  An event at `now` that is inserted
\* before a later event does not change where the parameter ends.
SetTargetAtTimeNow(value, end, target) == IF end > 0 THEN value ELSE target

\* The events of a timeline, for the operations that cancel and reschedule:
\* an event is the curve that leads to it, its value and the time from now to
\* it.  An event whose time is still to come is pending.
Event(curve, value, end) == [curve |-> curve, value |-> value, end |-> end]
Pending(events) == { e \in events : e.end > 0 }

cancelNothing(events, cancelTime) == events

\* cancelScheduledValues(cancelTime): every event at or after cancelTime goes
cancelScheduledValues(events, cancelTime) == { e \in events : e.end < cancelTime }

setValueAtTime(events, value, end) == events \cup { Event("set", value, end) }
exponentialRampToValueAtTime(events, value, end) ==
  events \cup { Event("exponential", value, end) }

\* the event a timeline ends with
LastEvent(events) == CHOOSE e \in events : \A f \in events : f.end <= e.end

\* the events a voice's frequency timeline holds: the ramp of a glide
FrequencyEvents(voice) ==
  IF voice.oscFreqEnd > 0
    THEN { Event("exponential", voice.oscFreq, voice.oscFreqEnd) } ELSE {}

\* the events the timeline of a voice's gain (and of its envelope source)
\* holds: the attack ramp of lines 196 and 203, or the release ramp
GainEvents(voice) ==
  IF voice.gain = "release"
    THEN (IF voice.gainEnd > 0
            THEN { Event("exponential", RampFloor, voice.gainEnd) } ELSE {})
    ELSE { Event("linear", voice.peak, AttackTime) }

\* lines 128-136: cancel, then the ramp of the glide or the value at once
RetargetFrequency(events, targetFreq, glide) ==
  IF glide > 0
    THEN exponentialRampToValueAtTime(cancelScheduledValues(events, 0), targetFreq, glide)
    ELSE setValueAtTime(cancelScheduledValues(events, 0), targetFreq, 0)

\* lines 267-270 and 272-274: cancel, hold the current value, ramp to 0.001
ReleaseGain(events, value, releaseTime) ==
  exponentialRampToValueAtTime(
    setValueAtTime(cancelScheduledValues(events, 0), value, 0), RampFloor, releaseTime)

\* ------------------------------------------------------- the engine's fields
\* The operations are functions of the engine's fields, so that one operation
\* can call another (the tick calls playNote, updateGlobalParams calls stopNote).
\* raised: the call threw; path: the branch it took; full: it needed a voice or
\* a timer beyond the model's bounds; arg: the caller's array after startArp.
Cur ==
  [map |-> activeOscillators, voices |-> voices, timers |-> timers,
   arpTimer |-> arpTimer, arpNotes |-> activeNotesForArp, arpIndex |-> currentArpIndex,
   arpSettings |-> arpSettings, bend |-> currentPitchBend, lastFreq |-> lastFrequency,
   sustain |-> currentSustain, ticks |-> arpTicks,
   raised |-> FALSE, path |-> "none", full |-> FALSE, arg |-> <<>>]

LiveIds(S) == { v \in VoiceIds : S.voices[v].live }
FreeIn(S) == VoiceIds \ LiveIds(S)
NewIdIn(S) == CHOOSE v \in FreeIn(S) : \A w \in FreeIn(S) : v <= w

\* ------------------------------------------------------------ updateNoteSlide
updateNoteSlide(S, note, slide) ==
  LET entry == MapGet(S.map, note)
  IN  IF entry = Null \/ ~ctx THEN S
      ELSE [S EXCEPT !.voices[entry].slideSource = slide]

\* ----------------------------------------------------------------- playNote
\* lines 126-146: the first voice of the map is retargeted and re-keyed
Retarget(S, note, settings, baseFreq, initialSlide) ==
  LET existingNote == S.map[1][1]
      entry == S.map[1][2]
      targetFreq == getBentFrequency(baseFreq, S.bend)
      frequency == RetargetFrequency(FrequencyEvents(S.voices[entry]), targetFreq,
                                     settings.glide)
      S1 == [S EXCEPT !.voices[entry].oscFreq = LastEvent(frequency).value,
                      !.voices[entry].oscFreqEnd = LastEvent(frequency).end,
                      !.voices[entry].baseFreq = baseFreq,
                      !.voices[entry].released = FALSE,
                      !.map = IF existingNote # note
                                THEN MapSet(MapDelete(S.map, existingNote), note, entry)
                                ELSE S.map,
                      !.lastFreq = << targetFreq >>,
                      !.path = "retarget"]
  IN  updateNoteSlide(S1, note, initialSlide)

\* lines 148-251: a new voice is built and stored under the note
Allocate(S, note, settings, baseFreq, velocity, initialSlide) ==
  LET targetFreq == getBentFrequency(baseFreq, S.bend)
      glides == settings.glide > 0 /\ S.lastFreq # <<>>
      id == NewIdIn(S)
  IN  IF FreeIn(S) = {} THEN [S EXCEPT !.full = TRUE]
      ELSE [S EXCEPT !.voices[id] = Voice(baseFreq, targetFreq,
                                          IF glides THEN settings.glide ELSE 0,
                                          settings.cutoff, initialSlide, velocity),
                     !.map = MapSet(S.map, note, id),
                     !.lastFreq = << targetFreq >>,
                     !.path = "allocate"]

\* the call goes on with NaN: the AudioParam methods throw a TypeError for a
\* value that is not finite.  In the mono branch the throw comes after the
\* cancelScheduledValues calls of lines 128-129 (with no glide under way they
\* remove nothing); in the other branch after the nodes were created, before
\* anything is stored.
NotANumber(S, settings) ==
  IF settings.monoMode /\ Len(S.map) > 0
    THEN [S EXCEPT !.voices[S.map[1][2]].oscFreqEnd = 0,
                   !.raised = TRUE, !.path = "throw"]
    ELSE [S EXCEPT !.raised = TRUE, !.path = "throw"]

playNote(S, note, settings, velocity, initialSlide) ==
  IF ~ctx THEN [S EXCEPT !.path = "noctx"]
  ELSE IF note = Undefined THEN [S EXCEPT !.raised = TRUE, !.path = "throw"]
  ELSE IF Inherited(ShiftedNote(note, settings)) THEN NotANumber(S, settings)
  ELSE IF ~Playable(note, settings) THEN [S EXCEPT !.path = "unknown"]
  ELSE IF settings.monoMode /\ Len(S.map) > 0
    THEN Retarget(S, note, settings, BaseFreq(note, settings), initialSlide)
    ELSE Allocate(S, note, settings, BaseFreq(note, settings), velocity, initialSlide)

\* ----------------------------------------------------------------- stopNote
TeardownDelayNoGrace(releaseTime) == releaseTime

\* line 288: the delay of the teardown timer
TeardownDelay(releaseTime) == releaseTime + TeardownGrace

ReleaseEveryVoice(S, note, entry, releaseTime) ==
  [S EXCEPT !.voices = [ v \in VoiceIds |->
                           IF v \in MapValues(S.map)
                             THEN [S.voices[v] EXCEPT !.gain = "release", !.gainEnd = releaseTime]
                             ELSE S.voices[v] ],
            !.timers = S.timers \cup
               { Timer("teardown", note, entry, INITIAL_SETTINGS, releaseTime + TeardownGrace) },
            !.path = "release"]

\* lines 264-288: the release ramp and the teardown timer
Release(S, note, entry, releaseTime) ==
  [S EXCEPT !.voices[entry].gain = "release",
            !.voices[entry].gainEnd =
               LastEvent(ReleaseGain(GainEvents(S.voices[entry]), S.voices[entry].peak,
                                      releaseTime)).end,
            !.timers = S.timers \cup
               { Timer("teardown", note, entry, INITIAL_SETTINGS, TeardownDelay(releaseTime)) },
            !.path = "release"]

HeldNever(S, immediate) == FALSE

\* lines 258-262: a stop under sustain only flags the voice
HeldBySustain(S, immediate) == S.sustain /\ ~immediate

stopNote(S, note, settings, immediate) ==
  LET entry == MapGet(S.map, note)
  IN  IF entry = Null \/ ~ctx THEN [S EXCEPT !.path = "novoice"]
      ELSE IF HeldBySustain(S, immediate)
        THEN [S EXCEPT !.voices[entry].released = TRUE, !.path = "held"]
        ELSE Release(S, note, entry,
                     IF immediate THEN ImmediateRelease ELSE settings.release)

\* -------------------------------------------------------------- setPitchBend
RECURSIVE BendAll(_, _)
BendAll(S, i) ==
  IF i > Len(S.map) THEN S
  ELSE LET entry == S.map[i][2]
           bentFreq == getBentFrequency(S.voices[entry].baseFreq, S.bend)
       IN  BendAll([S EXCEPT !.voices[entry].oscFreq =
                       SetTargetAtTimeNow(S.voices[entry].oscFreq,
                                          S.voices[entry].oscFreqEnd, bentFreq)],
                   i + 1)

setPitchBendRelative(S, value) ==
  LET S1 == [S EXCEPT !.bend = S.bend + value, !.path = "bend"]
  IN  IF ~ctx THEN S1 ELSE BendAll(S1, 1)

setPitchBend(S, value) ==
  LET S1 == [S EXCEPT !.bend = value, !.path = "bend"]
  IN  IF ~ctx THEN S1 ELSE BendAll(S1, 1)

\* -------------------------------------------------------- updateGlobalParams
\* lines 296-301: the voices flagged released are stopped, in map order
RECURSIVE ReleaseFlagged(_, _, _)
ReleaseFlagged(S, settings, i) ==
  IF i > Len(S.map) THEN S
  ELSE LET note == S.map[i][1]
           entry == S.map[i][2]
       IN  ReleaseFlagged(IF S.voices[entry].released
                            THEN stopNote(S, note, settings, FALSE) ELSE S,
                          settings, i + 1)

SustainLift(S, settings) ==
  IF S.sustain /\ ~settings.sustain
    THEN ReleaseFlagged([S EXCEPT !.sustain = FALSE], settings, 1)
    ELSE S

\* lines 307-311: the filter and the LFO of every voice of the map follow
RetargetFilters(S, settings) ==
  [S EXCEPT !.voices = [ v \in VoiceIds |->
      IF v \in MapValues(S.map) THEN [S.voices[v] EXCEPT !.filter = settings.cutoff]
      ELSE S.voices[v] ]]

updateGlobalParams(S, settings) ==
  IF ~ctx THEN [S EXCEPT !.path = "noctx"]
  ELSE LET S1 == SustainLift(S, settings)
           S2 == [S1 EXCEPT !.sustain = settings.sustain]
           S3 == RetargetFilters(S2, settings)
           S4 == IF settings.pitchBend # S3.bend
                   THEN setPitchBend(S3, settings.pitchBend) ELSE S3
       IN  [S4 EXCEPT !.path = IF S.sustain /\ ~settings.sustain THEN "lift" ELSE "params"]

\* ------------------------------------------------------------- arpeggiator
\* [...notes].sort(): the default order of strings, by character code
CharCode(c) ==
  IF c = "#" THEN 35
  ELSE IF c \in Digits THEN 48 + DigitVal[c]
  ELSE IF c = "A" THEN 65 ELSE IF c = "B" THEN 66 ELSE IF c = "C" THEN 67
  ELSE IF c = "D" THEN 68 ELSE IF c = "E" THEN 69 ELSE IF c = "F" THEN 70
  ELSE IF c = "G" THEN 71 ELSE 72

RECURSIVE StringLess(_, _)
StringLess(a, b) ==
  IF b = <<>> THEN FALSE
  ELSE IF a = <<>> THEN TRUE
  ELSE IF CharCode(Head(a)) # CharCode(Head(b)) THEN CharCode(Head(a)) < CharCode(Head(b))
  ELSE StringLess(Tail(a), Tail(b))

RECURSIVE Insert(_, _)
Insert(sorted, x) ==
  IF sorted = <<>> THEN << x >>
  ELSE IF StringLess(x, Head(sorted)) THEN << x >> \o sorted
  ELSE << Head(sorted) >> \o Insert(Tail(sorted), x)

RECURSIVE Sort(_)
Sort(notes) == IF notes = <<>> THEN <<>> ELSE Insert(Sort(SubSeq(notes, 1, Len(notes) - 1)), notes[Len(notes)])

\* 60 / settings.arpRate seconds, and the gate of 0.8 of it
ArpPeriod(settings) == Minute \div settings.arpRate
ArpGate(settings) == (ArpPeriod(settings) * GateTenths) \div 10

stopArpKeepsIndex(S) ==
  [S EXCEPT !.timers = { t \in S.timers : t.kind # "tick" },
            !.arpTimer = FALSE, !.path = "stopArp"]

\* stopArp, lines 333-336: clearTimeout(arpTimer) removes the pending tick
stopArp(S) ==
  [S EXCEPT !.timers = IF S.arpTimer THEN { t \in S.timers : t.kind # "tick" } ELSE S.timers,
            !.arpTimer = FALSE,
            !.arpIndex = 0,
            !.path = "stopArp"]

\* activeNotesForArp[currentArpIndex]; the index counts from 0
ArpNote(S) ==
  IF S.arpIndex < Len(S.arpNotes) THEN S.arpNotes[S.arpIndex + 1] ELSE Undefined

\* the tick closure, lines 321-329
tick(S, settings) ==
  IF Len(S.arpNotes) = 0 THEN stopArp(S)
  ELSE LET note == ArpNote(S)
           S1 == playNote(S, note, settings, ArpVelocity, DefaultSlide)
           S2 == [S1 EXCEPT !.timers = S1.timers \cup
                     { Timer("stopNote", note, 0, settings, ArpGate(settings)) },
                            !.arpIndex = (S1.arpIndex + 1) % Len(S1.arpNotes),
                            !.ticks = S1.ticks + 1]
       IN  IF S1.raised \/ S1.full THEN S1
           ELSE IF ~hasWindow THEN [S2 EXCEPT !.raised = TRUE, !.path = "throw"]
           ELSE [S2 EXCEPT !.timers = S2.timers \cup
                     { Timer("tick", <<>>, 0, settings, ArpPeriod(settings)) },
                           !.arpTimer = TRUE,
                           !.arpSettings = settings,
                           !.path = "tick"]

SortInPlace(notes) == [result |-> Sort(notes), arg |-> Sort(notes)]

\* [...notes].sort(): the spread makes a new array, which sort() orders in
\* place and returns; arg is the caller's array after the call
SortedCopy(notes) == [result |-> Sort(notes), arg |-> notes]

\* startArp, lines 318-331
startArp(S, notes, settings) ==
  LET S1 == [S EXCEPT !.arpNotes = SortedCopy(notes).result,
                      !.arg = SortedCopy(notes).arg, !.path = "running"]
  IN  IF S1.arpTimer THEN S1 ELSE tick([S1 EXCEPT !.ticks = 0], settings)

\* --------------------------------------------------------- timer callbacks
\* the teardown callback of stopNote, lines 282-288
teardown(S, t) ==
  [S EXCEPT !.voices[t.entry].connected = FALSE,
            !.map = IF MapGet(S.map, t.note) = t.entry THEN MapDelete(S.map, t.note)
                    ELSE S.map,
            !.path = IF MapGet(S.map, t.note) = t.entry THEN "removed" ELSE "stale"]

fire(S, t) ==
  LET S1 == [S EXCEPT !.timers = S.timers \ {t}]
  IN  IF t.kind = "teardown" THEN teardown(S1, t)
      ELSE IF t.kind = "stopNote" THEN stopNote(S1, t.note, t.settings, FALSE)
      ELSE tick(S1, t.settings)

\* time passes: the timers and the ramps come d closer to their end
Max0(x) == IF x < 0 THEN 0 ELSE x

elapse(S, d) ==
  [S EXCEPT !.timers = { [t EXCEPT !.left = t.left - d] : t \in S.timers },
            !.voices = [ v \in VoiceIds |->
               [S.voices[v] EXCEPT !.oscFreqEnd = Max0(S.voices[v].oscFreqEnd - d),
                                   !.gainEnd = Max0(S.voices[v].gainEnd - d)] ],
            !.path = "time"]

\* ----------------------------------------------------------------- actions
\* the fields after an operation; an operation that needs more voices or
\* timers than the bounds allow is not taken
CommitFields(I, S) ==
  /\ ~S.full
  /\ Cardinality(S.timers) <= I.maxTimers
  /\ Cardinality({ v \in VoiceIds : Collect(S.voices, S.map, S.timers)[v].live }) <= I.maxVoices
  /\ activeOscillators' = S.map
  /\ voices' = Collect(S.voices, S.map, S.timers)
  /\ timers' = S.timers
  /\ arpTimer' = S.arpTimer
  /\ activeNotesForArp' = S.arpNotes
  /\ currentArpIndex' = S.arpIndex
  /\ arpSettings' = S.arpSettings
  /\ currentPitchBend' = S.bend
  /\ lastFrequency' = S.lastFreq
  /\ currentSustain' = S.sustain
  /\ "ticks" \in I.observe => S.ticks <= MaxTicks
  /\ arpTicks' = IF "ticks" \in I.observe THEN S.ticks ELSE 0
  /\ last' = [path |-> IF S.path \in I.observe THEN S.path ELSE "other",
              raised |-> S.raised]
  /\ UNCHANGED << ctx, hasWindow >>

\* a step outside the Keyboard component leaves its state alone
CommitEngine(I, S) == CommitFields(I, S) /\ UNCHANGED keyboard

\* a call of the engine from a timer or from outside App leaves App's state alone
Commit(I, S) ==
  CommitEngine(I, S) /\ UNCHANGED << appSettings, gestureData, gestureControl >>

\* Keyboard.handleNoteStart passes the velocity 0.4
PlayNote(I, note, settings, initialSlide) ==
  Commit(I, playNote(Cur, note, settings, DefaultVelocity, initialSlide))

StopNote(I, note, settings, immediate) ==
  Commit(I, stopNote(Cur, note, settings, immediate))

UpdateNoteSlide(I, note, slide) ==
  Commit(I, [updateNoteSlide(Cur, note, slide) EXCEPT !.path = "slide"])

SetPitchBend(I, value) == Commit(I, setPitchBend(Cur, value))

UpdateGlobalParams(I, settings) == Commit(I, updateGlobalParams(Cur, settings))

StartArp(I, notes, settings) == Commit(I, startArp(Cur, notes, settings))

StopArp(I) == Commit(I, stopArp(Cur))

Fire(I, t) ==
  /\ t.left = 0
  /\ Commit(I, fire(Cur, t))

Advance(I, d) ==
  /\ d > 0
  /\ \A t \in timers : d <= t.left
  /\ Commit(I, elapse(Cur, d))

\* ------------------------------------------------------- the App component
\* Numbers of the gesture bridge.  A source value (x, y, distance), a route
\* amount and the pose multiplier are in tenths, so the product of the three
\* is in thousandths.  cutoff and lfoRate are in Hz, resonance and reverb in
\* thousandths, delayFeedback in ten-thousandths.
SourceValues == {0, 5, 10}
Amounts == {-10, 0, 10}
GestureSources ==
  {"Gesture_L_H", "Gesture_L_V", "Gesture_R_H", "Gesture_R_V", "Gesture_Dist"}
ModSource == {"LFO", "ENV"} \cup GestureSources
ModDestination == {"Cutoff", "Resonance", "Pitch", "Gain", "Reverb", "Delay"}

Route(source, destination, amount) ==
  [source |-> source, destination |-> destination, amount |-> amount]

\* the routes the route lists are drawn from: every destination of the
\* bridge, two sources for one destination, amounts of both signs and 0, a
\* route of the voice and a gesture route to a destination of the voice
ModRoute ==
  { Route("Gesture_L_V", "Cutoff", 10), Route("Gesture_L_V", "Cutoff", 0),
    Route("Gesture_Dist", "Cutoff", -10), Route("Gesture_Dist", "Resonance", 10),
    Route("Gesture_L_V", "Reverb", 10), Route("Gesture_Dist", "Delay", 10),
    Route("ENV", "Cutoff", 0), Route("Gesture_L_V", "Pitch", 10) }

\* the cell of the matrix the editor is used on
Cells == { <<"Gesture_L_V", "Cutoff">> }

\* the settings snapshots the bridge is handed: route lists with amounts in
\* the range the type states, 0 included
RouteLists == UNION { [1..n -> ModRoute] : n \in 0..MaxRoutes }

\* { ...INITIAL_SETTINGS, gestureControlEnabled: false, sustain: false }
AppInitial ==
  [cutoff |-> 2000, resonance |-> 1000, reverb |-> 300, delayFeedback |-> 4000,
   lfoRate |-> 5, sustain |-> FALSE, gestureControlEnabled |-> FALSE,
   arpEnabled |-> FALSE,
   modMatrix |-> << Route("LFO", "Cutoff", 2), Route("ENV", "Cutoff", 5) >>]

\* GestureState: two hands and their distance
Hand(y, active, isPincer, isClosed) ==
  [x |-> 5, y |-> y, active |-> active, isPincer |-> isPincer, isClosed |-> isClosed]
Poses ==
  { [leftHand |-> Hand(10, a, p, FALSE), rightHand |-> Hand(0, ra, TRUE, FALSE),
     distance |-> 5] : a \in BOOLEAN, p \in BOOLEAN, ra \in BOOLEAN }
Positions ==
  { [leftHand |-> Hand(y, FALSE, FALSE, c), rightHand |-> Hand(0, FALSE, FALSE, FALSE),
     distance |-> d] : y \in {0, 10}, c \in BOOLEAN, d \in {10} }
Readings == Poses \cup Positions

\* the null of useState<GestureState | null>(null) and of a failed analysis
NoReading == [reading |-> FALSE]

MathMax(a, b) == IF a >= b THEN a ELSE b
MathMin(a, b) == IF a <= b THEN a ELSE b

ClampNone(lo, hi, x) == x

\* Math.max(lo, Math.min(hi, x))
Clamp(lo, hi, x) == MathMax(lo, MathMin(hi, x))

\* lines 116-122: the switch over route.source, sourceValue starting at 0
SourceValue(source, g) ==
  CASE source = "Gesture_L_H" -> g.leftHand.x
    [] source = "Gesture_L_V" -> g.leftHand.y
    [] source = "Gesture_R_H" -> g.rightHand.x
    [] source = "Gesture_R_V" -> g.rightHand.y
    [] source = "Gesture_Dist" -> g.distance
    [] OTHER -> 0

\* line 128: 1.5 when either hand is closed
poseMult(g) == IF g.leftHand.isClosed \/ g.rightHand.isClosed THEN 15 ELSE 10

\* lines 125-129: sourceValue * route.amount * poseMult, in thousandths
finalAmt(route, g) == SourceValue(route.source, g) * route.amount * poseMult(g)

\* lines 131-144: the value a route writes to its destination
Mapped(destination, f) ==
  CASE destination = "Cutoff" -> Clamp(50, 10000, 2000 + f * 8)
    [] destination = "Resonance" -> Clamp(100, 10000, 1000 + f * 9)
    [] destination = "Reverb" -> Clamp(0, 1000, f)
    [] destination = "Delay" -> Clamp(0, 9000, f * 9)

\* the settings field a destination of the bridge stands for
Field(destination) ==
  CASE destination = "Cutoff" -> "cutoff"
    [] destination = "Resonance" -> "resonance"
    [] destination = "Reverb" -> "reverb"
    [] destination = "Delay" -> "delayFeedback"

BridgeDestinations == {"Cutoff", "Resonance", "Reverb", "Delay"}

ApplyRouteSummed(next, route, g) ==
  IF route.source \notin GestureSources \/ route.destination \notin BridgeDestinations
    THEN next
    ELSE [next EXCEPT ![Field(route.destination)] =
            @ + Mapped(route.destination, finalAmt(route, g))]

\* lines 112-145, the body of the forEach: a route whose source does not start
\* with 'Gesture' is skipped, a destination without a case writes nothing
ApplyRoute(next, route, g) ==
  IF route.source \notin GestureSources \/ route.destination \notin BridgeDestinations
    THEN next
    ELSE [next EXCEPT ![Field(route.destination)] =
            Mapped(route.destination, finalAmt(route, g))]

RECURSIVE ForEachRoute(_, _, _, _)
ForEachRoute(next, routes, g, i) ==
  IF i > Len(routes) THEN next
  ELSE ForEachRoute(ApplyRoute(next, routes[i], g), routes, g, i + 1)

SustainingLatched(prev, g) ==
  \/ prev.sustain
  \/ g.leftHand.active /\ g.leftHand.isPincer
  \/ g.rightHand.active /\ g.rightHand.isPincer

\* lines 107-109: isLHandSustaining || isRHandSustaining
Sustaining(prev, g) ==
  \/ g.leftHand.active /\ g.leftHand.isPincer
  \/ g.rightHand.active /\ g.rightHand.isPincer

EffectRunsWithReading(settings, g) == g # NoReading

\* line 101: if (!gestureData || !settings.gestureControlEnabled) return
EffectRuns(settings, g) == g # NoReading /\ settings.gestureControlEnabled

\* lines 100-149: the effect on [gestureData, settings.gestureControlEnabled]
gestureEffect(prev, g) ==
  IF ~EffectRuns(prev, g) THEN prev
  ELSE ForEachRoute([prev EXCEPT !.sustain = Sustaining(prev, g)], prev.modMatrix, g, 1)

\* ModMatrix.handleCellChange: findIndex gives the first hit, 0 here for -1
FindIndex(routes, src, dst) ==
  LET hits == { i \in 1..Len(routes) :
                  routes[i].source = src /\ routes[i].destination = dst }
  IN  IF hits = {} THEN 0 ELSE CHOOSE i \in hits : \A j \in hits : i <= j

\* splice(i, 1)
Splice(routes, i) == SubSeq(routes, 1, i - 1) \o SubSeq(routes, i + 1, Len(routes))

handleCellChangeKeepsZero(routes, src, dst, amount) ==
  LET existingIndex == FindIndex(routes, src, dst)
  IN  IF existingIndex > 0
        THEN [routes EXCEPT ![existingIndex] = Route(src, dst, amount)]
        ELSE Append(routes, Route(src, dst, amount))

handleCellChange(routes, src, dst, amount) ==
  LET existingIndex == FindIndex(routes, src, dst)
  IN  IF amount = 0
        THEN IF existingIndex > 0 THEN Splice(routes, existingIndex) ELSE routes
        ELSE IF existingIndex > 0
               THEN [routes EXCEPT ![existingIndex] = Route(src, dst, amount)]
               ELSE Append(routes, Route(src, dst, amount))

\* playNote, lines 205-224: one gain per route whose destination is a
\* parameter of the voice, its value route.amount * scale (in twentieths),
\* fed by the LFO or the envelope source and by nothing for any other source
Scale(destination) ==
  CASE destination = "Cutoff" -> 12000
    [] destination = "Resonance" -> 30
    [] destination = "Pitch" -> 1600
    [] destination = "Gain" -> 1

VoiceDestinations == {"Cutoff", "Resonance", "Pitch", "Gain"}

modGains(modMatrix) ==
  LET wired == SelectSeq(modMatrix, LAMBDA route : route.destination \in VoiceDestinations)
  IN  [ i \in 1..Len(wired) |->
          [input |-> IF wired[i].source \in {"LFO", "ENV"} THEN wired[i].source ELSE "none",
           target |-> wired[i].destination,
           gain |-> wired[i].amount * Scale(wired[i].destination)] ]

\* what a signal source adds to a parameter through the gains of a voice
RECURSIVE Contribution(_, _, _, _)
Contribution(gains, input, target, i) ==
  IF i > Len(gains) THEN 0
  ELSE (IF gains[i].input = input /\ gains[i].target = target THEN gains[i].gain ELSE 0)
       + Contribution(gains, input, target, i + 1)

\* the settings the engine is handed: App's fields over the initial ones
EngineSettings(s) == [INITIAL_SETTINGS EXCEPT !.cutoff = s.cutoff, !.sustain = s.sustain]

\* setSettings, and the effect on [settings] that calls updateGlobalParams
SetSettings(I, next, path) ==
  /\ appSettings' = next
  /\ CommitEngine(I, [updateGlobalParams(Cur, EngineSettings(next)) EXCEPT !.path = path])

\* onGestureUpdate = setGestureData, then the gesture effect
OnGestureUpdate(I, gesture) ==
  /\ gestureData' = gesture
  /\ IF EffectRuns(appSettings, gesture)
       THEN SetSettings(I, gestureEffect(appSettings, gesture), "gesture")
       ELSE /\ appSettings' = appSettings
            /\ CommitEngine(I, [Cur EXCEPT !.path = "disabled"])

\* GestureControl.runAnalysis, lines 89-92: a null result is not passed on
RunAnalysis(I, gesture) ==
  IF gesture = NoReading
    THEN /\ UNCHANGED << appSettings, gestureData >>
         /\ CommitEngine(I, [Cur EXCEPT !.path = "absent"])
    ELSE OnGestureUpdate(I, gesture)

\* a reading arrives; the analysis loop itself is left out of the step
Reading(I, gesture) == RunAnalysis(I, gesture) /\ UNCHANGED gestureControl

\* GestureControl after its first render with enabled false: the effect on
\* [enabled] called stopCamera, which found nothing to stop
ControlInitial ==
  [starting |-> FALSE, isStreaming |-> FALSE, refPending |-> FALSE,
   strayTimeouts |-> 0, inFlight |-> 0]

\* lines 24-35 and 106-108: stopCamera and the cleanup of the loop effect
\* clear the timeout analysisTimeoutRef holds, and only that one
stopCamera(control) == [control EXCEPT !.refPending = FALSE, !.isStreaming = FALSE]

\* analysisTimeoutRef.current = window.setTimeout(runAnalysis, ..): a timeout
\* the ref held and that is still pending is no longer referenced
setAnalysisTimeout(control) ==
  [control EXCEPT !.strayTimeouts = IF control.refPending THEN @ + 1 ELSE @,
                  !.refPending = TRUE]

\* lines 64-71 and 74-109 when `enabled` changed: the cleanups (stopCamera,
\* clearTimeout), then startCamera or stopCamera; the loop effect returns
\* because isStreaming is false by then
EnabledEffects(control, was, val) ==
  IF val = was THEN control
  ELSE IF val THEN [stopCamera(control) EXCEPT !.starting = TRUE]
  ELSE stopCamera(control)

\* onToggle = updateSetting('gestureControlEnabled', val); the gesture effect
\* runs again when the flag changed, on the reading App still holds
Toggle(I, control, val) ==
  LET s1 == [appSettings EXCEPT !.gestureControlEnabled = val]
      again == val # appSettings.gestureControlEnabled /\ EffectRuns(s1, gestureData)
      S1 == updateGlobalParams(Cur, EngineSettings(s1))
  IN  /\ gestureData' = gestureData
      /\ gestureControl' = EnabledEffects(control, appSettings.gestureControlEnabled, val)
      /\ IF again
           THEN /\ appSettings' = gestureEffect(s1, gestureData)
                /\ CommitEngine(I, [updateGlobalParams(S1, EngineSettings(gestureEffect(s1, gestureData)))
                                      EXCEPT !.path = "toggle"])
           ELSE /\ appSettings' = s1
                /\ CommitEngine(I, [S1 EXCEPT !.path = "toggle"])

OnToggle(I, val) == Toggle(I, gestureControl, val)

\* the matrix editor: onChange = updateSetting('modMatrix', newRoutes)
HandleCellChange(I, src, dst, amount) ==
  LET newRoutes == handleCellChange(appSettings.modMatrix, src, dst, amount)
  IN  /\ Len(newRoutes) <= MaxRoutes
      /\ UNCHANGED << gestureData, gestureControl >>
      /\ SetSettings(I, [appSettings EXCEPT !.modMatrix = newRoutes], "cell")

\* the Filter knob: updateSetting('cutoff', v)
UpdateSetting(I, key, value) ==
  /\ UNCHANGED << gestureData, gestureControl >>
  /\ SetSettings(I, [appSettings EXCEPT ![key] = value], "knob")

\* ------------------------------------------------- the Keyboard component
Elements(seq) == { seq[i] : i \in 1..Len(seq) }

\* the characters of a pitch name of NOTES and of an octave number
PitchCharsOf(name) ==
  CHOOSE chars \in { << c >> : c \in PitchChars } \cup { << c, "#" >> : c \in PitchChars } :
    PitchName(chars) = name
DigitChar(n) == CHOOSE c \in Digits : DigitVal[c] = n

\* Object.keys(FREQUENCIES)[index]: the keys in the order generateFrequencies
\* inserted them, octave by octave; Undefined beyond the end of the array
notesArray(index) ==
  IF index \in 0..(Len(NOTES) * (MaxOctave + 1) - 1)
    THEN PitchCharsOf(NOTES[(index % Len(NOTES)) + 1]) \o << DigitChar(index \div Len(NOTES)) >>
    ELSE Undefined

\* notesArray.indexOf(rootNote): the place of the key that is the note,
\* character by character; -1 when no key is
indexOf(rootNote) ==
  LET parts == NoteMatch(rootNote)
      index == parts[2] * Len(NOTES) + NoteIndex(PitchName(parts[1])) - 1
  IN  IF parts # <<>> /\ HasFrequency(parts) /\ notesArray(index) = rootNote
        THEN index ELSE -1

\* getChordNotes, lines 186-194: the root, and in chord mode the keys 4 and 7
\* places after it
getChordNotes(chordMode, rootNote) ==
  LET rootIndex == indexOf(rootNote)
      third == IF notesArray(rootIndex + 4) = Undefined THEN rootNote
               ELSE notesArray(rootIndex + 4)
      fifth == IF notesArray(rootIndex + 7) = Undefined THEN rootNote
               ELSE notesArray(rootIndex + 7)
  IN  IF ~chordMode THEN << rootNote >>
      ELSE IF rootIndex = -1 THEN << rootNote >>
      ELSE << rootNote, third, fifth >>

\* the key of the keyboard that is played: with chord mode it brings two more
\* notes
Keys == { <<"C", "4">> }

\* activeNotes is empty, chordMode is false, no key is down
KeyboardInitial == [activeNotes |-> {}, chordMode |-> FALSE, held |-> {}]

\* lines 200-203: notesToPlay.forEach(n => { next.add(n); if
\* (!settings.arpEnabled) audioService.playNote(n, settings, 0.4, slide) })
RECURSIVE PlayEach(_, _, _, _, _)
PlayEach(S, notesToPlay, settings, slide, i) ==
  IF i > Len(notesToPlay) \/ S.raised \/ S.full THEN S
  ELSE PlayEach(IF settings.arpEnabled THEN S
                ELSE playNote(S, notesToPlay[i], EngineSettings(settings),
                              DefaultVelocity, slide),
                notesToPlay, settings, slide, i + 1)

\* lines 212-215: notesToStop.forEach(n => { next.delete(n); if
\* (!settings.arpEnabled) audioService.stopNote(n, settings) })
RECURSIVE StopEach(_, _, _, _)
StopEach(S, notesToStop, settings, i) ==
  IF i > Len(notesToStop) \/ S.raised THEN S
  ELSE StopEach(IF settings.arpEnabled THEN S
                ELSE stopNote(S, notesToStop[i], EngineSettings(settings), FALSE),
                notesToStop, settings, i + 1)

\* handleNoteStart, lines 196-206, with the props of the last render
handleNoteStart(I, held, note, slide) ==
  LET notesToPlay == getChordNotes(keyboard.chordMode, note)
  IN  /\ keyboard' = [keyboard EXCEPT !.activeNotes = @ \cup Elements(notesToPlay),
                                      !.held = held]
      /\ CommitFields(I, [PlayEach(Cur, notesToPlay, appSettings, slide, 1)
                            EXCEPT !.path = "press"])
      /\ UNCHANGED << appSettings, gestureData, gestureControl >>

\* handleNoteEnd, lines 208-218, with the props of the last render
handleNoteEnd(I, held, note) ==
  LET notesToStop == getChordNotes(keyboard.chordMode, note)
  IN  /\ keyboard' = [keyboard EXCEPT !.activeNotes = @ \ Elements(notesToStop),
                                      !.held = held]
      /\ CommitFields(I, [StopEach(Cur, notesToStop, appSettings, 1)
                            EXCEPT !.path = "keyup"])
      /\ UNCHANGED << appSettings, gestureData, gestureControl >>

\* onKeyDown, lines 221-225: a key that was up goes down; a note that is
\* active is not started again
onKeyDown(I, note) ==
  /\ note \notin keyboard.held
  /\ IF note \notin keyboard.activeNotes
       THEN handleNoteStart(I, keyboard.held \cup {note}, note, DefaultSlide)
       ELSE /\ keyboard' = [keyboard EXCEPT !.held = @ \cup {note}]
            /\ CommitFields(I, [Cur EXCEPT !.path = "active"])
            /\ UNCHANGED << appSettings, gestureData, gestureControl >>

\* Key.handlePointerDown, lines 111-118: onStart whatever the active notes are
handlePointerDown(I, note, initialSlide) ==
  /\ note \notin keyboard.held
  /\ handleNoteStart(I, keyboard.held \cup {note}, note, initialSlide)

\* onKeyUp, lines 226-229, and onPointerUp, line 148: the key that was down
\* goes up
onKeyUp(I, note) ==
  /\ note \in keyboard.held
  /\ handleNoteEnd(I, keyboard.held \ {note}, note)

\* the Chord_Eng button, part_007 line 269: setChordMode(!chordMode)
setChordMode(I, val) ==
  /\ keyboard' = [keyboard EXCEPT !.chordMode = val]
  /\ CommitFields(I, [Cur EXCEPT !.path = "chord"])
  /\ UNCHANGED << appSettings, gestureData, gestureControl >>

InitEngine ==
  /\ ctx \in BOOLEAN
  /\ hasWindow \in BOOLEAN
  /\ ctx => hasWindow
  /\ activeOscillators = <<>>
  /\ voices = [ v \in VoiceIds |-> NoVoice ]
  /\ timers = {}
  /\ arpTimer = FALSE
  /\ activeNotesForArp = <<>>
  /\ currentArpIndex = 0
  /\ arpSettings = INITIAL_SETTINGS
  /\ currentPitchBend = 0
  /\ lastFrequency = <<>>
  /\ currentSustain = FALSE
  /\ arpTicks = 0
  /\ last = [path |-> "init", raised |-> FALSE]

\* the engine after construction, App after its first render
Init ==
  /\ InitEngine
  /\ appSettings = AppInitial
  /\ gestureData = NoReading
  /\ gestureControl = ControlInitial
  /\ keyboard = KeyboardInitial

\* the inputs of a specification: the sets its operations draw from
PlaySettings(I) ==
  { [INITIAL_SETTINGS EXCEPT !.octave = o, !.monoMode = m, !.glide = g] :
      o \in I.octaves, m \in I.monos, g \in I.glides }
StopSettings(I) == { [INITIAL_SETTINGS EXCEPT !.release = r] : r \in I.releases }
ParamSettings(I) ==
  { [INITIAL_SETTINGS EXCEPT !.release = r, !.sustain = su, !.pitchBend = b, !.cutoff = c] :
      r \in I.releases, su \in I.sustains, b \in I.bends, c \in I.cutoffs }
ArpSettings(I) ==
  { [INITIAL_SETTINGS EXCEPT !.monoMode = m, !.arpRate = a] :
      m \in I.monos, a \in ArpRates }
NoteLists(I) == UNION { [1..n -> I.notes] : n \in 0..MaxArpNotes }

\* the operations that decide how long a voice lives
NextLife(I) ==
  \/ \E note \in I.notes, settings \in PlaySettings(I), slide \in I.slides :
       PlayNote(I, note, settings, slide)
  \/ \E note \in I.notes, settings \in StopSettings(I), immediate \in I.immediates :
       StopNote(I, note, settings, immediate)
  \/ \E settings \in ParamSettings(I) : UpdateGlobalParams(I, settings)
  \/ \E t \in timers : Fire(I, t)
  \/ \E d \in Steps \cup { t.left : t \in timers } : Advance(I, d)

\* the continuous controls
NextTone(I) ==
  \/ \E note \in I.notes, slide \in I.slides : UpdateNoteSlide(I, note, slide)
  \/ \E value \in I.bends : SetPitchBend(I, value)

NextArp(I) ==
  \/ \E notes \in NoteLists(I), settings \in ArpSettings(I) : StartArp(I, notes, settings)
  \/ StopArp(I)

\* the voice lifecycle: both allocation policies, sustain and two release times
Lifecycle ==
  [notes |-> { <<"C", "4">>, <<"E", "8">> }, octaves |-> {0},
   monos |-> BOOLEAN, glides |-> {0}, slides |-> {0}, releases |-> Releases,
   immediates |-> {FALSE}, bends |-> {0}, cutoffs |-> {2000},
   sustains |-> BOOLEAN, maxVoices |-> MaxVoices, maxTimers |-> MaxTimers,
   observe |-> {"removed", "stale", "lift"}]

Next == NextLife(Lifecycle)

Spec == Init /\ [][Next]_vars

\* sustained and retargeted voices under pitch-bend, with one release time
Tone ==
  [notes |-> { <<"C", "4">>, <<"E", "8">> }, octaves |-> {0},
   monos |-> BOOLEAN, glides |-> {0}, slides |-> {0}, releases |-> {10},
   immediates |-> {FALSE}, bends |-> {0, 1}, cutoffs |-> {2000},
   sustains |-> BOOLEAN, maxVoices |-> MaxVoices, maxTimers |-> MaxToneTimers,
   observe |-> {"retarget", "held", "lift"}]

NextToneSpec == NextLife(Tone) \/ NextTone(Tone)

SpecTone == Init /\ [][NextToneSpec]_vars

\* every note name and both octave shifts, under both allocation policies
Names ==
  [notes |-> NoteNames, octaves |-> Octaves,
   monos |-> BOOLEAN, glides |-> {0}, slides |-> {0}, releases |-> {10},
   immediates |-> {FALSE}, bends |-> {0}, cutoffs |-> {2000},
   sustains |-> BOOLEAN, maxVoices |-> MaxVoices, maxTimers |-> MaxToneTimers,
   observe |-> {"unknown"}]

NextNames == NextLife(Names)

SpecNames == Init /\ [][NextNames]_vars

\* the arpeggiator driving the polyphonic engine, with every other operation
Arp ==
  [notes |-> { <<"C", "4">>, <<"E", "8">> }, octaves |-> {0},
   monos |-> {FALSE}, glides |-> {0}, slides |-> {0}, releases |-> {10},
   immediates |-> {FALSE}, bends |-> {0}, cutoffs |-> {2000},
   sustains |-> {FALSE}, maxVoices |-> MaxVoices, maxTimers |-> MaxTimers,
   observe |-> {"throw"}]

NextArpSpec == NextLife(Arp) \/ NextTone(Arp) \/ NextArp(Arp)

SpecArp == Init /\ [][NextArpSpec]_vars

\* every operation before init() went through, with every input
Every ==
  [notes |-> { <<"C", "4">>, <<"E", "8">> }, octaves |-> Octaves,
   monos |-> BOOLEAN, glides |-> Glides, slides |-> Slides, releases |-> Releases,
   immediates |-> BOOLEAN, bends |-> Bends, cutoffs |-> Cutoffs,
   sustains |-> BOOLEAN, maxVoices |-> MaxVoices, maxTimers |-> MaxTimers,
   observe |-> {"throw"}]

InitNoBackend == Init /\ ~ctx

NextNoBackend == NextLife(Every) \/ NextTone(Every) \/ NextArp(Every)

SpecNoBackend == InitNoBackend /\ [][NextNoBackend]_vars

\* sustain, both allocation policies and one release time; a timer that is due
\* fires and time does not stop
Lift ==
  [notes |-> { <<"C", "4">>, <<"E", "8">> }, octaves |-> {0},
   monos |-> BOOLEAN, glides |-> {0}, slides |-> {0}, releases |-> {10},
   immediates |-> {FALSE}, bends |-> {0}, cutoffs |-> {2000},
   sustains |-> BOOLEAN, maxVoices |-> MaxVoices, maxTimers |-> MaxToneTimers,
   observe |-> {"lift"}]

NextLift == NextLife(Lift)

FireDue == \E t \in timers : Fire(Lift, t)

TimePasses == \E d \in Steps \cup { t.left : t \in timers } : Advance(Lift, d)

SpecLift == Init /\ [][NextLift]_vars /\ WF_vars(FireDue) /\ WF_vars(TimePasses)

\* one run of the arpeggiator at the initial rate of 120: a start from Idle,
\* its ticks and timers, and the stop; a note list may hold a name that is no
\* note
ArpRun ==
  [notes |-> { <<"C", "4">>, <<"E", "8">>, Constructor }, octaves |-> {0},
   monos |-> {FALSE}, glides |-> {0}, slides |-> {0}, releases |-> {10},
   immediates |-> {FALSE}, bends |-> {0}, cutoffs |-> {2000},
   sustains |-> {FALSE}, maxVoices |-> MaxVoices, maxTimers |-> MaxArpTimers,
   observe |-> {"ticks", "tick", "throw", "stopArp"}]

ArpRunSettings == { [INITIAL_SETTINGS EXCEPT !.arpRate = 120] }

NextArpRun ==
  \/ \E notes \in NoteLists(ArpRun), settings \in ArpRunSettings :
       ~arpTimer /\ StartArp(ArpRun, notes, settings)
  \/ StopArp(ArpRun)
  \/ \E t \in timers : Fire(ArpRun, t)
  \/ \E d \in Steps \cup { t.left : t \in timers } : Advance(ArpRun, d)

SpecArpRun == Init /\ [][NextArpRun]_vars

\* the arpeggiator alone at the rate of 120: starts at any time, also while it
\* runs, stops, and the timers
ArpCtl ==
  [notes |-> { <<"C", "4">>, <<"E", "8">> }, octaves |-> {0},
   monos |-> {FALSE}, glides |-> {0}, slides |-> {0}, releases |-> {10},
   immediates |-> {FALSE}, bends |-> {0}, cutoffs |-> {2000},
   sustains |-> {FALSE}, maxVoices |-> MaxVoices, maxTimers |-> MaxArpTimers,
   observe |-> {"running", "stopArp"}]

NextArpCtl ==
  \/ \E notes \in NoteLists(ArpCtl), settings \in ArpRunSettings :
       StartArp(ArpCtl, notes, settings)
  \/ StopArp(ArpCtl)
  \/ \E t \in timers : Fire(ArpCtl, t)
  \/ \E d \in Steps \cup { t.left : t \in timers } : Advance(ArpCtl, d)

SpecArpCtl == Init /\ [][NextArpCtl]_vars

\* glides and pitch-bends, with both allocation policies
Glide ==
  [notes |-> { <<"C", "4">>, <<"E", "8">> }, octaves |-> {0},
   monos |-> BOOLEAN, glides |-> Glides, slides |-> {0}, releases |-> {10},
   immediates |-> {FALSE}, bends |-> {0, 1}, cutoffs |-> {2000},
   sustains |-> {FALSE}, maxVoices |-> MaxVoices, maxTimers |-> MaxToneTimers,
   observe |-> {"bend", "retarget"}]

NextGlide == NextLife(Glide) \/ NextTone(Glide)

SpecGlide == Init /\ [][NextGlide]_vars

\* ------------------------------------------------------------------ claims
\* The claims about one call are stated of the call made in any reachable
\* state: Cur is the state before the call, op(Cur, ...) the state after it.
DueTeardowns == { t \in timers : t.kind = "teardown" /\ t.left = 0 }

\* noteOn of a note of the table puts a voice under the note
C1_PlayStores ==
  \A note \in Lifecycle.notes, settings \in PlaySettings(Lifecycle) :
    (ctx /\ Playable(note, settings) /\ ~playNote(Cur, note, settings, DefaultVelocity, 0).full)
      => MapHas(playNote(Cur, note, settings, DefaultVelocity, 0).map, note)

\* with sustain off, noteOff starts the release ramp of the voice under the note
\* and schedules its teardown release + 0.2 s later, without touching the map
C1_StopReleases ==
  \A note \in Lifecycle.notes, settings \in StopSettings(Lifecycle) :
    (ctx /\ ~currentSustain /\ MapHas(activeOscillators, note))
      => LET entry == MapGet(activeOscillators, note)
             S == stopNote(Cur, note, settings, FALSE)
         IN  /\ S.voices[entry].gain = "release"
             /\ S.voices[entry].gainEnd = settings.release
             /\ \E t \in S.timers :
                  /\ t.kind = "teardown" /\ t.note = note /\ t.entry = entry
                  /\ t.left = settings.release + TeardownGrace
             /\ S.timers \ timers \subseteq
                  { t \in S.timers : t.kind = "teardown" /\ t.entry = entry }
             /\ S.map = activeOscillators

\* the teardown that finds its voice under its note removes it from the map
C1_TeardownRemoves ==
  \A t \in DueTeardowns :
    MapGet(activeOscillators, t.note) = t.entry
      => t.entry \notin MapValues(fire(Cur, t).map)

\* no noteOff, applyGlobalParams, timer callback or passage of time puts a voice
\* into the map
C1_OnlyNoteOnAdds ==
  /\ \A note \in Lifecycle.notes, settings \in StopSettings(Lifecycle) :
       MapValues(stopNote(Cur, note, settings, FALSE).map) \subseteq MapValues(activeOscillators)
  /\ \A settings \in ParamSettings(Lifecycle) :
       MapValues(updateGlobalParams(Cur, settings).map) \subseteq MapValues(activeOscillators)
  /\ \A t \in { x \in timers : x.left = 0 } :
       MapValues(fire(Cur, t).map) \subseteq MapValues(activeOscillators)
  /\ MapValues(elapse(Cur, 10).map) \subseteq MapValues(activeOscillators)

\* C1: with the backend initialised and sustain off, noteOn(note) for a note of
\* the table puts a voice under the note, and a noteOff(note) starts the release
\* ramp of the voice under the note and schedules its teardown release + 0.2 s
\* later without touching the map; the teardown that finds the voice under its
\* note removes it from the map, and no call but a noteOn puts a voice into the
\* map.
C1_NoteOnOffTeardown ==
  C1_PlayStores /\ C1_StopReleases /\ C1_TeardownRemoves /\ C1_OnlyNoteOnAdds

\* a teardown has just removed the last voice: its graph is gone with it
C1_Witness ==
  /\ ctx
  /\ last.path = "removed"
  /\ activeOscillators = <<>>
  /\ \A v \in VoiceIds : ~voices[v].live

\* C2: a teardown callback disconnects a voice only when the voice's most
\* recently scheduled release ramp has ended.
C2_DisposalAfterSilence ==
  \A t \in DueTeardowns :
    ~fire(Cur, t).voices[t.entry].connected => voices[t.entry].gainEnd = 0

\* C3: a teardown that fires when its note no longer holds its voice is a no-op:
\* the map keeps its entries and the voices of the map keep their graphs.
C3_StaleTeardownNoOp ==
  \A t \in DueTeardowns :
    MapGet(activeOscillators, t.note) # t.entry
      => /\ fire(Cur, t).map = activeOscillators
         /\ \A v \in MapValues(activeOscillators) : fire(Cur, t).voices[v] = voices[v]

\* C4: after a noteOn with monoMode on for a note of the table, the map holds
\* exactly one voice, whatever was played before.
C4_MonoOneVoice ==
  \A note \in Lifecycle.notes, settings \in PlaySettings(Lifecycle) :
    (ctx /\ settings.monoMode /\ Playable(note, settings)
       /\ ~playNote(Cur, note, settings, DefaultVelocity, 0).full)
      => Len(playNote(Cur, note, settings, DefaultVelocity, 0).map) = 1

\* C5: in mono mode with a voice in the map, noteOn for a note of the table
\* allocates no voice: the first voice of the map is stored under the new note
\* (and under no other), its baseFreq is the note's table frequency, its
\* frequency leads to that frequency bent by the stored pitch-bend, its released
\* flag is cleared, and its gain automation, its graph and the timers are as
\* before.
C5_MonoRetarget ==
  \A note \in Every.notes, settings \in PlaySettings(Every), slide \in Slides :
    (ctx /\ settings.monoMode /\ Len(activeOscillators) > 0
       /\ HasFrequency(ShiftedNote(note, settings)))
      => LET S == playNote(Cur, note, settings, DefaultVelocity, slide)
             entry == activeOscillators[1][2]
             freq == FREQUENCIES(ShiftedNote(note, settings))
         IN  /\ ~S.raised /\ ~S.full
             /\ LiveIds(S) = LiveIds(Cur)
             /\ MapValues(S.map) \subseteq MapValues(activeOscillators)
             /\ \A k \in MapKeys(S.map) : MapGet(S.map, k) = entry <=> k = note
             /\ S.voices[entry].baseFreq = freq
             /\ S.voices[entry].oscFreq = freq + currentPitchBend * bendRange
             /\ S.voices[entry].oscFreqEnd = settings.glide
             /\ ~S.voices[entry].released
             /\ S.voices[entry].gain = voices[entry].gain
             /\ S.voices[entry].gainEnd = voices[entry].gainEnd
             /\ S.voices[entry].connected = voices[entry].connected
             /\ S.timers = timers

\* a voice whose release is under way was retargeted under a bend
C5_Witness ==
  /\ ctx
  /\ last.path = "retarget"
  /\ currentPitchBend # 0
  /\ \E v \in MapValues(activeOscillators) :
       /\ voices[v].oscFreq = voices[v].baseFreq + currentPitchBend * bendRange
       /\ voices[v].gain = "release"
       /\ voices[v].gainEnd > 0
       /\ ~voices[v].released

\* the voices of the map that carry the released flag under the stored sustain
FlaggedUnderSustain ==
  { v \in MapValues(activeOscillators) : ctx /\ currentSustain /\ voices[v].released }

\* the call left the release of voice v as it was: no ramp, no teardown of its own
ReleaseUntouched(S, v) ==
  /\ S.voices[v].gain = voices[v].gain
  /\ S.voices[v].gainEnd = voices[v].gainEnd
  /\ { t \in S.timers : t.entry = v } \subseteq { t \in timers : t.entry = v }

LiftReleased(v) ==
  /\ ctx
  /\ last.path = "lift"
  /\ v \in MapValues(activeOscillators)
  /\ voices[v].released
  /\ voices[v].gain = "release"

\* C7: a voice whose release the sustain lift has just begun is eventually out
\* of the map.
C7_LiftedEventuallyRemoved ==
  \A v \in VoiceIds : [](LiftReleased(v) => <>(v \notin MapValues(activeOscillators)))

\* C8: in a browser (window is defined) no operation and no timer callback
\* raises an exception.
C8_NeverRaises == hasWindow => ~last.raised

\* C9: noteOn with a note whose octave-shifted name is not in the frequency
\* table returns without raising and leaves the map, the voices, the timers, the
\* last frequency, the stored bend and the stored sustain flag as they were.
C9_UnknownNoteNoOp ==
  \A note \in NoteNames, settings \in PlaySettings(Every) :
    (ctx /\ ~HasFrequency(ShiftedNote(note, settings)))
      => LET S == playNote(Cur, note, settings, DefaultVelocity, 0)
         IN  /\ ~S.raised
             /\ S.map = activeOscillators
             /\ S.voices = voices
             /\ S.timers = timers
             /\ S.lastFreq = lastFrequency
             /\ S.bend = currentPitchBend
             /\ S.sustain = currentSustain

\* the fields of the engine after a call are the fields before it
Ignored(S) ==
  /\ ~S.raised
  /\ S.map = activeOscillators
  /\ S.voices = voices
  /\ S.timers = timers
  /\ S.arpTimer = arpTimer
  /\ S.arpNotes = activeNotesForArp
  /\ S.arpIndex = currentArpIndex
  /\ S.bend = currentPitchBend
  /\ S.lastFreq = lastFrequency
  /\ S.sustain = currentSustain

\* C10: without an audio context, noteOn, noteOff, updateSlide, setPitchBend,
\* applyGlobalParams and the arpeggiator start return without raising and leave
\* every field of the engine as it was.
C10_IgnoredWithoutBackend ==
  ~ctx =>
    /\ \A note \in Every.notes, settings \in PlaySettings(Every), slide \in Slides :
         Ignored(playNote(Cur, note, settings, DefaultVelocity, slide))
    /\ \A note \in Every.notes, settings \in StopSettings(Every), immediate \in BOOLEAN :
         Ignored(stopNote(Cur, note, settings, immediate))
    /\ \A note \in Every.notes, slide \in Slides :
         Ignored(updateNoteSlide(Cur, note, slide))
    /\ \A settings \in ParamSettings(Every) : Ignored(updateGlobalParams(Cur, settings))
    /\ \A value \in Bends : Ignored(setPitchBend(Cur, value))
    /\ \A notes \in NoteLists(Every), settings \in ArpSettings(Every) :
         Ignored(startArp(Cur, notes, settings))

\* C11: setPitchBend(0) makes the frequency of every voice of the map lead to
\* the voice's baseFreq, whatever was scheduled before.
C11_BendRoundTrip ==
  ctx => \A v \in MapValues(activeOscillators) :
           setPitchBend(Cur, 0).voices[v].oscFreq = voices[v].baseFreq

\* C12: a second setPitchBend(v) leaves the stored bend and every voice as the
\* first left them, and no setPitchBend changes a voice's baseFreq, its released
\* flag or the map.
C12_BendIdempotent ==
  \A value \in Bends :
    LET S1 == setPitchBend(Cur, value)
        S2 == setPitchBend(S1, value)
    IN  /\ S2.bend = S1.bend
        /\ S1.bend = value
        /\ S2.voices = S1.voices
        /\ S1.map = activeOscillators
        /\ S2.map = activeOscillators
        /\ \A v \in VoiceIds :
             /\ S1.voices[v].baseFreq = voices[v].baseFreq
             /\ S1.voices[v].released = voices[v].released
             /\ S1.voices[v].live = voices[v].live

\* a nonzero bend has just been applied to a voice of the map
C12_Witness ==
  /\ ctx
  /\ last.path = "bend"
  /\ currentPitchBend # 0
  /\ \E v \in MapValues(activeOscillators) :
       voices[v].oscFreq = voices[v].baseFreq + currentPitchBend * bendRange

\* the sequence is in ascending order of strings
Ascending(seq) == \A i \in 1..(Len(seq) - 1) : ~StringLess(seq[i + 1], seq[i])

\* the two sequences hold the same elements the same number of times
SameElements(a, b) ==
  /\ Len(a) = Len(b)
  /\ \A x \in { a[i] : i \in 1..Len(a) } \cup { b[i] : i \in 1..Len(b) } :
       Cardinality({ i \in 1..Len(a) : a[i] = x }) = Cardinality({ i \in 1..Len(b) : b[i] = x })

\* from the fields B the tick went through to S: it made the noteOn for the note
\* with velocity 0.3, scheduled the note's noteOff 0.8 periods later and the
\* next tick one period later, the noteOff coming first
TickFired(B, S, note, settings) ==
  LET P == playNote(B, note, settings, ArpVelocity, DefaultSlide)
      period == Minute \div settings.arpRate
      gate == (period * GateTenths) \div 10
  IN  /\ ~S.raised
      /\ S.map = P.map /\ S.voices = P.voices /\ S.lastFreq = P.lastFreq
      /\ S.timers = B.timers \cup { Timer("stopNote", note, 0, settings, gate),
                                    Timer("tick", <<>>, 0, settings, period) }
      /\ gate < period
      /\ S.arpTimer

\* C13: a start from Idle with a non-empty list stores the ascending-sorted
\* copy of the list and runs tick 0; with no further start, the k-th tick makes
\* the noteOn with velocity 0.3 for note k mod n of the stored sequence, and
\* schedules that note's noteOff 0.8 x 60/arpRate s later and the next tick
\* 60/arpRate s later.
C13_ArpDeterminism ==
  /\ \A notes \in NoteLists(ArpRun) \ { <<>> }, settings \in ArpRunSettings :
       (ctx /\ ~arpTimer /\ ~startArp(Cur, notes, settings).full)
         => LET S == startArp(Cur, notes, settings)
            IN  /\ Ascending(S.arpNotes)
                /\ SameElements(S.arpNotes, notes)
                /\ TickFired(Cur, S, S.arpNotes[1], settings)
  /\ \A t \in { x \in timers : x.kind = "tick" /\ x.left = 0 } :
       (ctx /\ activeNotesForArp # <<>> /\ ~fire(Cur, t).full)
         => LET S == fire(Cur, t)
                n == Len(activeNotesForArp)
            IN  /\ S.arpNotes = activeNotesForArp
                /\ TickFired([Cur EXCEPT !.timers = timers \ {t}], S,
                             activeNotesForArp[(arpTicks % n) + 1], t.settings)

\* the call left everything but the stored sequence as it was
OnlySequence(S) ==
  /\ ~S.raised
  /\ S.map = activeOscillators
  /\ S.voices = voices
  /\ S.timers = timers
  /\ S.arpTimer = arpTimer
  /\ S.arpIndex = currentArpIndex
  /\ S.bend = currentPitchBend
  /\ S.lastFreq = lastFrequency
  /\ S.sustain = currentSustain

\* C14: startArp while the arpTimer is set stores the sorted copy of the notes
\* and nothing else: no voice, no timer (so no second tick), the index and the
\* arpTimer as before; the caller's array is as it was passed.
C14_StartWhileRunning ==
  \A notes \in NoteLists(ArpCtl), settings \in ArpRunSettings :
    LET S == startArp(Cur, notes, settings)
    IN  /\ arpTimer =>
             /\ OnlySequence(S)
             /\ Ascending(S.arpNotes)
             /\ SameElements(S.arpNotes, notes)
        /\ S.arg = notes

\* a start has just replaced the sequence of the running arpeggiator, whose
\* first note sounds and whose next tick is pending
C14_Witness ==
  /\ ctx
  /\ last.path = "running"
  /\ arpTimer
  /\ currentArpIndex = 1
  /\ Len(activeNotesForArp) = 2
  /\ activeOscillators # <<>>
  /\ Cardinality({ t \in timers : t.kind = "tick" }) = 1

\* the pending callbacks of the arpeggiator's tick
Ticks(ts) == { t \in ts : t.kind = "tick" }

\* the arpeggiator is Idle in S, with index 0, and made no noteOn
IdleFrom(B, S) ==
  /\ ~S.raised
  /\ ~S.arpTimer
  /\ S.arpIndex = 0
  /\ Ticks(S.timers) = {}
  /\ S.map = B.map /\ S.voices = B.voices /\ S.lastFreq = B.lastFreq
  /\ S.timers = B.timers \ Ticks(B.timers)

\* C15: stopArp leaves no tick pending, the arpTimer null and the index 0, and
\* touches no voice and no other timer (the scheduled noteOffs stay); while the
\* arpTimer is null no tick is pending, so no tick fires before the next start;
\* the start after a stop plays the first note of its sequence; a tick that
\* finds the sequence empty, from a timer or from a start, makes no noteOn and
\* leaves the arpeggiator Idle with index 0.
C15_StopArp ==
  /\ IdleFrom(Cur, stopArp(Cur))
  /\ (hasWindow /\ ~arpTimer) => Ticks(timers) = {}
  /\ \A notes \in NoteLists(ArpCtl) \ { <<>> }, settings \in ArpRunSettings :
       LET B == stopArp(Cur)
           S == startArp(B, notes, settings)
       IN  (ctx /\ ~S.full) => TickFired(B, S, Sort(notes)[1], settings)
  /\ \A t \in { x \in Ticks(timers) : x.left = 0 } :
       activeNotesForArp = <<>> => IdleFrom(Cur, fire(Cur, t))
  /\ \A settings \in ArpRunSettings :
       ~arpTimer => IdleFrom(Cur, startArp(Cur, <<>>, settings))

\* a stop has just cancelled the tick of a running arpeggiator whose last
\* note still awaits its scheduled noteOff
C15_Witness ==
  /\ ctx
  /\ last.path = "stopArp"
  /\ ~arpTimer
  /\ currentArpIndex = 0
  /\ activeNotesForArp # <<>>
  /\ Ticks(timers) = {}
  /\ \E t \in timers : t.kind = "stopNote" /\ MapHas(activeOscillators, t.note)

\* ------------------------------------------------------ the gesture bridge
\* readings, the vision switch, the matrix editor and the Filter knob, from
\* every route list the bridge can be handed; no note is played
Bridge ==
  [notes |-> {}, octaves |-> {0}, monos |-> {FALSE}, glides |-> {0}, slides |-> {0},
   releases |-> {10}, immediates |-> {FALSE}, bends |-> {0}, cutoffs |-> {500},
   sustains |-> BOOLEAN, maxVoices |-> MaxVoices, maxTimers |-> MaxTimers,
   observe |-> {"gesture", "disabled", "absent", "cell"}]

InitBridge ==
  /\ InitEngine
  /\ ctx
  /\ appSettings \in { [AppInitial EXCEPT !.modMatrix = routes] :
                         routes \in RouteLists \cup { AppInitial.modMatrix } }
  /\ gestureData = NoReading
  /\ gestureControl = ControlInitial
  /\ keyboard = KeyboardInitial

NextBridge ==
  \/ \E gesture \in Readings \cup { NoReading } : Reading(Bridge, gesture)
  \/ \E val \in BOOLEAN : OnToggle(Bridge, val)
  \/ \E c \in Cells, amount \in Amounts : HandleCellChange(Bridge, c[1], c[2], amount)
  \/ \E value \in Bridge.cutoffs : UpdateSetting(Bridge, "cutoff", value)

SpecBridge == InitBridge /\ [][NextBridge]_vars

\* ---------------------------------------------------------------- C16
\* what an evaluation leaves: every field of the settings but the route list
Observable(settings) == [settings EXCEPT !.modMatrix = <<>>]

WithoutRoute(settings, i) == [settings EXCEPT !.modMatrix = Splice(@, i)]

ZeroRoutes ==
  { i \in 1..Len(appSettings.modMatrix) : appSettings.modMatrix[i].amount = 0 }

\* the voice-creation half of C16: a route of amount 0 adds nothing to any
\* parameter of a voice, from the LFO or from the envelope source, so the
\* voice sounds as it does without the route
C16_VoiceRoutes ==
  \A i \in ZeroRoutes, input \in {"LFO", "ENV"}, target \in VoiceDestinations :
    Contribution(modGains(appSettings.modMatrix), input, target, 1)
      = Contribution(modGains(Splice(appSettings.modMatrix, i)), input, target, 1)

\* C16: a route whose amount is 0 is observably the same as no route: for
\* every route list and every evaluation (the gains of a new voice for the
\* LFO and ENV routes, a gesture tick for the Gesture_* routes) the result
\* with the zero-amount route equals the result with the list minus that route
C16_ZeroAmountIsRemoval ==
  /\ C16_VoiceRoutes
  /\ \A i \in ZeroRoutes, g \in Readings :
       Observable(gestureEffect(appSettings, g))
         = Observable(gestureEffect(WithoutRoute(appSettings, i), g))

\* ---------------------------------------------------------------- C17
\* every source value in [0,1] and every amount in [-1,1], in tenths
Tenths == 0..10
AmountTenths == -10..10
PoseMults == {10, 15}

InRange(destination, value) ==
  CASE destination = "Cutoff" -> 50 <= value /\ value <= 10000
    [] destination = "Resonance" -> 100 <= value /\ value <= 10000
    [] destination = "Reverb" -> 0 <= value /\ value <= 1000
    [] destination = "Delay" -> 0 <= value /\ value <= 9000

\* C17: for every source value in [0,1], every amount in [-1,1] and either
\* pose multiplier, the value the bridge writes is in the range of its
\* destination (cutoff 50..10000, resonance 0.1..10, reverb 0..1, delayFeedback
\* 0..0.9), and so is every destination field after a gesture tick from any
\* reachable settings
\* (the mapping does not read the state: it is evaluated in the initial states)
C17_WrittenInRange ==
  /\ last.path = "init" =>
       \A sv \in Tenths, amount \in AmountTenths, pm \in PoseMults,
          destination \in BridgeDestinations :
         InRange(destination, Mapped(destination, sv * amount * pm))
  /\ \A g \in Readings, destination \in BridgeDestinations :
       InRange(destination, gestureEffect(appSettings, g)[Field(destination)])

\* a tick with a closed hand wrote the cutoff of a full-amount route at full
\* source value: 2000 + 1.5 * 8000 is beyond the range and 10000 was written
C17_Witness ==
  /\ last.path = "gesture"
  /\ gestureData # NoReading
  /\ gestureData.leftHand.isClosed /\ gestureData.leftHand.y = 10
  /\ Len(appSettings.modMatrix) > 0
  /\ appSettings.modMatrix[Len(appSettings.modMatrix)] = Route("Gesture_L_V", "Cutoff", 10)
  /\ 2000 + finalAmt(appSettings.modMatrix[Len(appSettings.modMatrix)], gestureData) * 8 > 10000
  /\ appSettings.cutoff = 10000

\* ---------------------------------------------------------------- C18
\* the places of the Gesture_* routes of a list that target a destination
GestureRoutesTo(routes, destination) ==
  { i \in 1..Len(routes) :
      routes[i].source \in GestureSources /\ routes[i].destination = destination }

Last(indices) == CHOOSE i \in indices : \A j \in indices : j <= i

\* C18: when one or several Gesture_* routes target a destination, the value
\* a gesture tick writes to it is the value computed from the last such route
\* of the list alone; the earlier routes add nothing to it
C18_LastRouteWins ==
  appSettings.gestureControlEnabled =>
    \A g \in Readings, destination \in BridgeDestinations :
      LET hits == GestureRoutesTo(appSettings.modMatrix, destination)
      IN  hits # {} =>
            gestureEffect(appSettings, g)[Field(destination)]
              = Mapped(destination, finalAmt(appSettings.modMatrix[Last(hits)], g))

\* a tick evaluated two routes to the cutoff, the first giving 10000 and the
\* second 50, and left 50
C18_Witness ==
  /\ last.path = "gesture"
  /\ gestureData # NoReading
  /\ appSettings.modMatrix
       = << Route("Gesture_L_V", "Cutoff", 10), Route("Gesture_Dist", "Cutoff", -10) >>
  /\ Mapped("Cutoff", finalAmt(appSettings.modMatrix[1], gestureData)) = 10000
  /\ Mapped("Cutoff", finalAmt(appSettings.modMatrix[2], gestureData)) = 50
  /\ appSettings.cutoff = 50

\* ---------------------------------------------------------------- C19
Pincer(hand) == hand.active /\ hand.isPincer

\* C19: after a gesture tick processed with gesture control enabled,
\* settings.sustain is true exactly when the left hand is active and in a
\* pincer pose or the right hand is, whatever sustain was before and whatever
\* the routes are
C19_SustainFollowsPincer ==
  /\ appSettings.gestureControlEnabled =>
       \A g \in Readings :
         gestureEffect(appSettings, g).sustain = (Pincer(g.leftHand) \/ Pincer(g.rightHand))
  /\ last.path = "gesture" =>
       appSettings.sustain = (Pincer(gestureData.leftHand) \/ Pincer(gestureData.rightHand))

\* a tick over a non-empty route list set sustain for the right hand alone:
\* the left hand shows a pincer without being active
C19_Witness ==
  /\ last.path = "gesture"
  /\ gestureData # NoReading
  /\ gestureData.leftHand.isPincer /\ ~gestureData.leftHand.active
  /\ Pincer(gestureData.rightHand)
  /\ appSettings.modMatrix # <<>>
  /\ appSettings.sustain

\* ---------------------------------------------------------------- C20
Changed(before, after) == { f \in DOMAIN before : before[f] # after[f] }

\* sustain and the fields of the destinations of the Gesture_* routes
Touched(settings) ==
  {"sustain"} \cup
  { Field(settings.modMatrix[i].destination) :
      i \in { j \in 1..Len(settings.modMatrix) :
                /\ settings.modMatrix[j].source \in GestureSources
                /\ settings.modMatrix[j].destination \in BridgeDestinations } }

HeldOrTouched ==
  /\ gestureEffect(appSettings, NoReading) = appSettings
  /\ ~appSettings.gestureControlEnabled =>
       \A g \in Readings : gestureEffect(appSettings, g) = appSettings
  /\ appSettings.gestureControlEnabled =>
       \A g \in Readings :
         Changed(appSettings, gestureEffect(appSettings, g)) \subseteq Touched(appSettings)

TickFrame ==
  /\ last'.path \in {"absent", "disabled"} =>
       /\ appSettings' = appSettings
       /\ UNCHANGED engine
  /\ last'.path = "gesture" =>
       Changed(appSettings, appSettings') \subseteq Touched(appSettings)

\* C20: a gesture tick changes settings only when a reading is present and
\* gesture control is enabled: with a null reading or with gesture control
\* disabled every settings field (and the engine) keeps its last value, and
\* with control enabled only sustain and the destination fields of the
\* Gesture_* routes (cutoff, resonance, reverb, delayFeedback) can change
C20_TickFrame == []HeldOrTouched /\ [][TickFrame]_vars

\* a reading arrived with gesture control off: the cutoff the knob set stays,
\* though a route to the cutoff would write another value for this reading
C20_Witness ==
  /\ last.path = "disabled"
  /\ gestureData # NoReading
  /\ ~appSettings.gestureControlEnabled
  /\ appSettings.modMatrix = << Route("Gesture_L_V", "Cutoff", 10) >>
  /\ gestureData.leftHand.y = 10
  /\ appSettings.cutoff = 500

\* ------------------------------------------------------- the matrix editor
\* ModMatrix.getAmount: the amount of the first route of the pair, else 0
getAmount(routes, src, dst) ==
  IF FindIndex(routes, src, dst) > 0 THEN routes[FindIndex(routes, src, dst)].amount ELSE 0

\* SOURCES x DESTINATIONS, the cells the editor shows
SOURCES == {"LFO", "ENV", "Gesture_L_V", "Gesture_R_V", "Gesture_Dist"}
DESTINATIONS == {"Cutoff", "Resonance", "Pitch", "Gain", "Reverb", "Delay"}

\* the cells that are edited
EditorCells == { <<"LFO", "Cutoff">>, <<"ENV", "Cutoff">>, <<"Gesture_L_V", "Reverb">> }
EditorRoutes == { Route(c[1], c[2], amount) : c \in EditorCells, amount \in Amounts }

\* at most one route per (source, destination) pair
OnePerPair(routes) ==
  \A i, j \in 1..Len(routes) :
    (routes[i].source = routes[j].source /\ routes[i].destination = routes[j].destination)
      => i = j

\* the lists an editing session starts from
StartLists ==
  { routes \in UNION { [1..n -> EditorRoutes] : n \in 0..MaxRoutes } : OnePerPair(routes) }

InitEditor ==
  /\ InitEngine
  /\ appSettings \in { [AppInitial EXCEPT !.modMatrix = routes] :
                         routes \in StartLists \cup { AppInitial.modMatrix } }
  /\ gestureData = NoReading
  /\ gestureControl = ControlInitial
  /\ keyboard = KeyboardInitial

NextEditor ==
  \E c \in EditorCells, amount \in Amounts : HandleCellChange(Bridge, c[1], c[2], amount)

SpecEditor == InitEditor /\ [][NextEditor]_vars

\* ---------------------------------------------------------------- C21
NoZeroAmount(routes) == \A i \in 1..Len(routes) : routes[i].amount # 0

\* the routes of every pair but one, in list order
OtherRoutes(routes, src, dst) ==
  SelectSeq(routes, LAMBDA route : ~(route.source = src /\ route.destination = dst))

\* C21 as stated: starting from a list with at most one route per pair, the
\* list after a cell edit has at most one route per pair and no route of
\* amount 0
C21_EditedListClean ==
  last.path = "cell" =>
    OnePerPair(appSettings.modMatrix) /\ NoZeroAmount(appSettings.modMatrix)

\* C21, amended: from a list with at most one route per pair and no route of
\* amount 0, every cell edit yields such a list again, the edited pair then
\* shows the amount that was set (no route for 0), and the routes of every
\* other pair are the same in the same order; without the second condition
\* on the start, an edit still keeps one route per pair, adds no route of
\* amount 0 and changes the edited pair only
C21_EditsKeepClean ==
  OnePerPair(appSettings.modMatrix) =>
    \A src \in SOURCES, dst \in DESTINATIONS, amount \in Amounts :
      LET routes == appSettings.modMatrix
          newRoutes == handleCellChange(routes, src, dst, amount)
      IN  /\ OnePerPair(newRoutes)
          /\ NoZeroAmount(routes) => NoZeroAmount(newRoutes)
          /\ getAmount(newRoutes, src, dst) = amount
          /\ amount = 0 => FindIndex(newRoutes, src, dst) = 0
          /\ OtherRoutes(newRoutes, src, dst) = OtherRoutes(routes, src, dst)

\* a cell edit left a list of one route, and the pair LFO -> Cutoff, which
\* has no route, shows the amount 0
C21_Witness ==
  /\ last.path = "cell"
  /\ appSettings.modMatrix = << Route("ENV", "Cutoff", -10) >>
  /\ getAmount(appSettings.modMatrix, "LFO", "Cutoff") = 0

\* ---------------------------------------------------------------- C22
\* the fields of the engine that no noteOff may touch
Controls(S) ==
  << S.map, S.arpTimer, S.arpNotes, S.arpIndex, S.arpSettings, S.bend, S.lastFreq,
     S.sustain >>

\* C22: noteOff(note) affects only the voice stored under note: the flag, the
\* automation and the scheduled teardowns of every other voice are as before,
\* the only timer it adds is the teardown of that voice, and with no voice
\* stored under note it changes nothing and schedules nothing
C22_NoteOffFrame ==
  \A note \in Lifecycle.notes, settings \in StopSettings(Lifecycle), immediate \in BOOLEAN :
    LET S == stopNote(Cur, note, settings, immediate)
        entry == MapGet(activeOscillators, note)
    IN  /\ Controls(S) = Controls(Cur)
        /\ \A v \in VoiceIds : v # entry => S.voices[v] = voices[v]
        /\ timers \subseteq S.timers
        /\ \A t \in S.timers \ timers :
             t.kind = "teardown" /\ t.note = note /\ t.entry = entry
        /\ entry = Null => (S.voices = voices /\ S.timers = timers)

\* two voices are in the map; one was released by its noteOff and waits for
\* its teardown, the other is untouched: not flagged, not releasing, no timer
C22_Witness ==
  \E a, b \in MapValues(activeOscillators) :
    /\ a # b
    /\ voices[a].gain = "release" /\ \E t \in timers : t.entry = a
    /\ voices[b].gain # "release" /\ ~voices[b].released
    /\ \A t \in timers : t.entry # b

\* ---------------------------------------------------------------- C23
\* C23: an operation that cancels and reschedules automation on a parameter
\* of a voice (the mono retarget on the oscillators' frequency, noteOff on the
\* gain and the envelope source) cancels every event scheduled before, so that
\* after it the new ramp is the only pending automation on that parameter
C23_CancelBeforeReschedule ==
  /\ \A note \in Glide.notes, settings \in PlaySettings(Glide) :
       (ctx /\ settings.monoMode /\ Len(activeOscillators) > 0 /\ Playable(note, settings)) =>
         LET entry == activeOscillators[1][2]
             targetFreq == getBentFrequency(BaseFreq(note, settings), currentPitchBend)
             after == RetargetFrequency(FrequencyEvents(voices[entry]), targetFreq,
                                        settings.glide)
             S == playNote(Cur, note, settings, DefaultVelocity, DefaultSlide)
         IN  /\ Pending(after) = IF settings.glide > 0
                                   THEN { Event("exponential", targetFreq, settings.glide) }
                                   ELSE {}
             /\ FrequencyEvents(S.voices[entry]) = Pending(after)
             /\ S.voices[entry].oscFreq = targetFreq
  /\ \A note \in Glide.notes, settings \in StopSettings(Glide), immediate \in BOOLEAN :
       (ctx /\ MapHas(activeOscillators, note) /\ ~HeldBySustain(Cur, immediate)) =>
         LET entry == MapGet(activeOscillators, note)
             releaseTime == IF immediate THEN ImmediateRelease ELSE settings.release
             after == ReleaseGain(GainEvents(voices[entry]), voices[entry].peak, releaseTime)
             S == stopNote(Cur, note, settings, immediate)
         IN  /\ Pending(after) = { Event("exponential", RampFloor, releaseTime) }
             /\ GainEvents(S.voices[entry]) = Pending(after)

\* a mono retarget with a glide acted on a voice whose release was under way:
\* its frequency holds the one ramp to the new note, its gain the release ramp
C23_Witness ==
  /\ last.path = "retarget"
  /\ Len(activeOscillators) > 0
  /\ LET voice == voices[activeOscillators[1][2]]
     IN  /\ FrequencyEvents(voice)
              = { Event("exponential", getBentFrequency(voice.baseFreq, currentPitchBend), 10) }
         /\ voice.gain = "release"
         /\ Cardinality(GainEvents(voice)) = 1

\* ------------------------------------------------------- the analysis loop
\* startCamera went through: the stream plays, setIsStreaming(true), and the
\* loop effect runs; with `enabled` true it sets the first timeout
Streaming(I) ==
  /\ gestureControl.starting
  /\ LET control == [gestureControl EXCEPT !.starting = FALSE, !.isStreaming = TRUE]
     IN  gestureControl' =
           IF appSettings.gestureControlEnabled /\ ~gestureControl.isStreaming
             THEN setAnalysisTimeout(control) ELSE control
  /\ UNCHANGED << appSettings, gestureData >>
  /\ CommitEngine(I, [Cur EXCEPT !.path = "camera"])

\* startCamera failed: lines 57-61, onToggle(false)
CameraFails(I) ==
  /\ gestureControl.starting
  /\ Toggle(I, [gestureControl EXCEPT !.starting = FALSE], FALSE)

\* a timeout fires and runAnalysis starts a request.  The closure was made
\* by the loop effect when `enabled` was true, so its test of `enabled` in
\* line 78 passes whatever the prop is by now; video and canvas are rendered
\* as long as the component is
TimeoutFires(I, referenced) ==
  /\ IF referenced THEN gestureControl.refPending ELSE gestureControl.strayTimeouts > 0
  /\ gestureControl' =
       [gestureControl EXCEPT !.refPending = IF referenced THEN FALSE ELSE @,
                              !.strayTimeouts = IF referenced THEN @ ELSE @ - 1,
                              !.inFlight = @ + 1]
  /\ UNCHANGED << appSettings, gestureData >>
  /\ CommitEngine(I, [Cur EXCEPT !.path = "request"])

\* lines 89-101: the request ends (a reading, or null when it failed), the
\* reading is passed on, and in `finally` the closure's `enabled`, still true,
\* lets it set the next timeout
AnalysisDone(I, gesture) ==
  /\ gestureControl.inFlight > 0
  /\ gestureControl' = setAnalysisTimeout([gestureControl EXCEPT !.inFlight = @ - 1])
  /\ gestureControl'.strayTimeouts <= MaxLoops
  /\ RunAnalysis(I, gesture)

\* the switch, the camera, the timeouts and the requests; one reading
Loop ==
  [notes |-> {}, octaves |-> {0}, monos |-> {FALSE}, glides |-> {0}, slides |-> {0},
   releases |-> {10}, immediates |-> {FALSE}, bends |-> {0}, cutoffs |-> {2000},
   sustains |-> BOOLEAN, maxVoices |-> MaxVoices, maxTimers |-> MaxTimers,
   observe |-> {"gesture", "disabled", "absent", "request", "camera", "toggle"}]

LoopReadings ==
  { [leftHand |-> Hand(10, TRUE, TRUE, FALSE), rightHand |-> Hand(0, FALSE, FALSE, FALSE),
     distance |-> 5],
    NoReading }

NextLoop ==
  \/ \E val \in BOOLEAN : OnToggle(Loop, val)
  \/ Streaming(Loop)
  \/ CameraFails(Loop)
  \/ \E referenced \in BOOLEAN :
       /\ gestureControl.inFlight < MaxLoops
       /\ TimeoutFires(Loop, referenced)
  \/ \E gesture \in LoopReadings : AnalysisDone(Loop, gesture)

SpecLoop == Init /\ [][NextLoop]_vars

\* ---------------------------------------------------------------- C24
PendingTimeouts ==
  (IF gestureControl.refPending THEN 1 ELSE 0) + gestureControl.strayTimeouts

\* C24: the analysis loop never has more than one request in flight, the
\* next analysis is scheduled only after the current one finished (so a
\* request and a timeout are never pending together, nor two timeouts), and
\* while gesture control is disabled no analysis is scheduled, for every
\* sequence of enabling and disabling, also after a disable during a request
C24_OneLoop ==
  /\ gestureControl.inFlight <= 1
  /\ gestureControl.inFlight + PendingTimeouts <= 1
  /\ ~appSettings.gestureControlEnabled => PendingTimeouts = 0

\* the first part of C24 alone: at most one request is in flight
C24_TwoInFlight == gestureControl.inFlight <= 1

\* ---------------------------------------------------------------- C25
\* C25: every voice the note->voice map refers to has an intact graph: no
\* voice whose nodes a teardown callback disconnected is still stored in the
\* map under any key, also not after a mono retarget re-keyed a voice whose
\* release had begun
C25_MapVoicesIntact ==
  \A v \in MapValues(activeOscillators) : voices[v].live /\ voices[v].connected

\* ------------------------------------------------------------------------ C26
\* a voice that was allocated and whose release has not begun
Sounding(v) == voices[v].live /\ voices[v].connected /\ voices[v].gain # "release"

\* C26: no sounding voice is orphaned: every voice that was allocated and has
\* not started its release is referenced by the note->voice map, also after a
\* polyphonic noteOn for a key that already has a voice
C26_NoOrphan ==
  \A v \in VoiceIds : Sounding(v) => v \in MapValues(activeOscillators)

\* ------------------------------------------------------------------------ C27
\* the tick callbacks that are due
DueTicks == { t \in timers : t.kind = "tick" /\ t.left = 0 }

\* the tick closure runs with the fields as they are and finds the index inside
\* the sequence, so the note it reads is one of the sequence
IndexInSequence(S) ==
  Len(S.arpNotes) > 0 =>
    /\ S.arpIndex < Len(S.arpNotes)
    /\ ArpNote(S) \in Elements(S.arpNotes)

\* C27: whenever an arpeggiator tick fires with a non-empty sequence, the
\* current index is smaller than the length of the sequence, also after a start
\* replaced the sequence by a shorter one while the arpeggiator was running, so
\* the note the tick plays is a note of the current sequence; this for the tick
\* a timer fires and for the tick a start from rest runs itself, where `window`
\* is defined
C27_TickIndexInSequence ==
  hasWindow =>
  /\ \A t \in DueTicks : IndexInSequence([Cur EXCEPT !.timers = timers \ {t}])
  /\ ~arpTimer =>
       \A notes \in NoteLists(ArpCtl) :
         IndexInSequence([Cur EXCEPT !.arpNotes = SortedCopy(notes).result])

\* ------------------------------------------------------------------------ C28
\* the arpTimer field and the pending ticks agree
HandleMatchesTick(S) ==
  /\ Cardinality(Ticks(S.timers)) <= 1
  /\ S.arpTimer <=> Cardinality(Ticks(S.timers)) = 1

\* C28: between the executions of ticks, where `window` is defined, the
\* arpTimer is set exactly when one tick callback is pending and never more
\* than one tick is pending, whatever the order of starts, stops and tick
\* firings; so a start with a non-empty sequence issued when no tick is
\* pending leaves the arpeggiator ticking
C28_TimerIffTick ==
  hasWindow =>
    /\ HandleMatchesTick(Cur)
    /\ Ticks(timers) = {} =>
         \A notes \in NoteLists(ArpCtl) \ { <<>> }, settings \in ArpRunSettings :
           LET S == startArp(Cur, notes, settings)
           IN  ~S.full => S.arpTimer /\ Cardinality(Ticks(S.timers)) = 1

\* ------------------------------------------------------------ the keyboard
\* a key played from the computer keyboard and by pointer (at its middle, the
\* slide a key press has), the Chord_Eng button and the arpeggiator switch,
\* with the timers of the releases
Playing ==
  [notes |-> Keys, octaves |-> {0},
   monos |-> {FALSE}, glides |-> {0}, slides |-> {DefaultSlide}, releases |-> {10},
   immediates |-> {FALSE}, bends |-> {0}, cutoffs |-> {2000},
   sustains |-> {FALSE}, maxVoices |-> MaxChordVoices, maxTimers |-> MaxChordVoices,
   observe |-> {"press", "keyup", "chord", "knob"}]

NextPlaying ==
  \/ \E note \in Playing.notes : onKeyDown(Playing, note)
  \/ \E note \in Playing.notes, initialSlide \in Playing.slides :
       handlePointerDown(Playing, note, initialSlide)
  \/ \E note \in Playing.notes : onKeyUp(Playing, note)
  \/ \E val \in BOOLEAN : setChordMode(Playing, val)
  \/ \E val \in BOOLEAN : UpdateSetting(Playing, "arpEnabled", val)
  \/ \E t \in timers : Fire(Playing, t)
  \/ \E d \in Steps \cup { t.left : t \in timers } : Advance(Playing, d)

SpecPlaying == Init /\ [][NextPlaying]_vars

\* ---------------------------------------------------------------- C29
\* C29: every voice a key press started, the third and the fifth of chord mode
\* included, is given its stopNote when the key is released, also when chord
\* mode or the arpeggiator switch changed between the press and the release:
\* once no key is held and sustain is off, no voice sounds on without its
\* release having begun
C29_SilentWhenNoKeyHeld ==
  (keyboard.held = {} /\ ~currentSustain) => \A v \in VoiceIds : ~Sounding(v)

\* ------------------------------------------------------ sustain by gesture
\* one key, the vision switch and two readings (a pincer of the left hand,
\* an open left hand); a timer that is due fires and time does not stop
Hold ==
  [notes |-> { <<"C", "4">> }, octaves |-> {0},
   monos |-> {FALSE}, glides |-> {0}, slides |-> {0}, releases |-> {10},
   immediates |-> {FALSE}, bends |-> {0}, cutoffs |-> {2000},
   sustains |-> BOOLEAN, maxVoices |-> MaxVoices, maxTimers |-> MaxToneTimers,
   observe |-> {"gesture", "disabled", "toggle", "held"}]

HoldReadings ==
  { [leftHand |-> Hand(10, TRUE, p, FALSE), rightHand |-> Hand(0, FALSE, FALSE, FALSE),
     distance |-> 5] : p \in BOOLEAN }

FireHold == \E t \in timers : Fire(Hold, t)

TimePassesHold == \E d \in Steps \cup { t.left : t \in timers } : Advance(Hold, d)

NextHold ==
  \/ \E val \in BOOLEAN : OnToggle(Hold, val)
  \/ \E gesture \in HoldReadings : Reading(Hold, gesture)
  \/ \E note \in Hold.notes, settings \in PlaySettings(Hold), slide \in Hold.slides :
       PlayNote(Hold, note, settings, slide)
  \/ \E note \in Hold.notes, settings \in StopSettings(Hold) :
       StopNote(Hold, note, settings, FALSE)
  \/ FireHold
  \/ TimePassesHold

SpecHold == Init /\ [][NextHold]_vars /\ WF_vars(FireHold) /\ WF_vars(TimePassesHold)

\* ---------------------------------------------------------------- C30
\* the voices of the map a noteOff flagged while sustain was on
HeldVoices == { v \in MapValues(activeOscillators) : voices[v].released }

\* C30: sustain a gesture asserted does not outlive gesture control: when
\* gesture control is off while settings.sustain is true, sustain eventually
\* is false again, and a voice that is flagged released under sustain while
\* gesture control is off is eventually out of the map
C30_SustainEndsWithControl ==
  /\ (appSettings.sustain /\ ~appSettings.gestureControlEnabled) ~> ~appSettings.sustain
  /\ \A v \in VoiceIds :
       (v \in HeldVoices /\ ~appSettings.gestureControlEnabled)
          ~> (v \notin MapValues(activeOscillators))

====
